---------------------------- MODULE Spec2Model ----------------------------
(***************************************************************************)
(* Action authentication and wire encoding of the hyperliquid-go-sdk:      *)
(* msgpack serialisation of an action, the ActionHash pre-image, the       *)
(* EIP-712 payloads, SignInner and the Exchange request envelope.          *)
(*                                                                         *)
(* src/pkg/utils/signing.go holds two revisions of the signing code, one   *)
(* after the other (lines 1-598 and lines 600-1279).  They are modelled    *)
(* side by side; names ending in 1 are the first revision, names ending   *)
(* in 2 the second.  src/pkg/client/exchange.go calls the first revision   *)
(* (SignL1ActionWithAccount exists only there).                            *)
(*                                                                         *)
(* Strings are sequences of one-character strings, byte strings are        *)
(* sequences of integers in 0..255.  Keccak-256 is modelled as an          *)
(* injective function of its input (the digest records the pre-image);     *)
(* ECDSA signing is a deterministic but unknown function of key and        *)
(* digest, modelled as an oracle that is memoised in the state.            *)
(***************************************************************************)
EXTENDS Integers, Sequences, FiniteSets, TLC

(***************************************************************************)
(* Characters and strings                                                  *)
(***************************************************************************)
Digits == <<"0","1","2","3","4","5","6","7","8","9">>
Upper == <<"A","B","C","D","E","F","G","H","I","J","K","L","M",
           "N","O","P","Q","R","S","T","U","V","W","X","Y","Z">>
Lower == <<"a","b","c","d","e","f","g","h","i","j","k","l","m",
           "n","o","p","q","r","s","t","u","v","w","x","y","z">>

InSeq(seq, c) == \E i \in 1..Len(seq) : seq[i] = c
IndexOf(seq, c) == CHOOSE i \in 1..Len(seq) : seq[i] = c

Punctuation == <<".", "-", "/", ":", "_">>
PunctuationCodes == <<46, 45, 47, 58, 95>>
Chars == {Digits[i] : i \in 1..10} \cup {Upper[i] : i \in 1..26}
         \cup {Lower[i] : i \in 1..26} \cup {Punctuation[i] : i \in 1..5}

\* The ASCII code of a character.
CharCodes ==
  [c \in Chars |->
     IF InSeq(Digits, c) THEN 47 + IndexOf(Digits, c)
     ELSE IF InSeq(Upper, c) THEN 64 + IndexOf(Upper, c)
     ELSE IF InSeq(Lower, c) THEN 96 + IndexOf(Lower, c)
     ELSE PunctuationCodes[IndexOf(Punctuation, c)]]
CharCode(c) == CharCodes[c]

StrBytes(s) == [i \in 1..Len(s) |-> CharCode(s[i])]

\* strings.ToLower
LowerOf == [c \in Chars |-> IF InSeq(Upper, c) THEN Lower[IndexOf(Upper, c)] ELSE c]
ToLower(s) == [i \in 1..Len(s) |-> LowerOf[s[i]]]

\* strings.HasPrefix
HasPrefix(s, p) == Len(s) >= Len(p) /\ SubSeq(s, 1, Len(p)) = p
\* strings.TrimPrefix
TrimPrefix(s, p) == IF HasPrefix(s, p) THEN SubSeq(s, Len(p) + 1, Len(s)) ELSE s

\* n copies of the string s
RECURSIVE Rep(_, _)
Rep(s, n) == IF n = 0 THEN <<>> ELSE s \o Rep(s, n - 1)

RECURSIVE Flatten(_)
Flatten(ss) == IF ss = <<>> THEN <<>> ELSE Head(ss) \o Flatten(Tail(ss))

(***************************************************************************)
(* encoding/hex                                                            *)
(***************************************************************************)
\* hex's reverseHexTable: the digit's value, or a value above 15 for a
\* character that is no hex digit.
HexVals ==
  [c \in Chars |->
     IF InSeq(Digits, c) THEN IndexOf(Digits, c) - 1
     ELSE IF InSeq(SubSeq(Lower, 1, 6), c) THEN 9 + IndexOf(Lower, c)
     ELSE IF InSeq(SubSeq(Upper, 1, 6), c) THEN 9 + IndexOf(Upper, c)
     ELSE 255]
HexVal(c) == HexVals[c]

HexDigits == <<"0","1","2","3","4","5","6","7","8","9","a","b","c","d","e","f">>

\* hex.DecodeString: the bytes decoded before the first invalid pair, and
\* whether an error is returned (an invalid character or an odd length).
HexDecodeString(s) ==
  LET n == Len(s) \div 2
      Bad(i) == HexVal(s[2 * i - 1]) > 15 \/ HexVal(s[2 * i]) > 15
      anyBad == \E i \in 1..n : Bad(i)
      good == IF anyBad
              THEN (CHOOSE i \in 1..n : Bad(i) /\ \A j \in 1..(i - 1) : ~Bad(j)) - 1
              ELSE n
  IN  [bytes |-> [i \in 1..good |-> 16 * HexVal(s[2 * i - 1]) + HexVal(s[2 * i])],
       err   |-> anyBad \/ Len(s) % 2 = 1]

\* hex.EncodeToString
HexEncodeToString(bs) ==
  Flatten([i \in 1..Len(bs) |-> <<HexDigits[(bs[i] \div 16) + 1], HexDigits[(bs[i] % 16) + 1]>>])

(***************************************************************************)
(* encoding/binary                                                         *)
(***************************************************************************)
\* The eight bytes of a non-negative integer below 2^31, big endian.
NatBytes8(n) ==
  <<0, 0, 0, 0, (n \div 16777216) % 256, (n \div 65536) % 256, (n \div 256) % 256, n % 256>>

\* binary.BigEndian.PutUint64(b, uint64(n)) for a signed 64-bit n: the
\* conversion keeps the two's complement bit pattern, so a negative n gives
\* the complement of the bytes of -n-1.
PutUint64(n) ==
  IF n >= 0 THEN NatBytes8(n)
  ELSE [i \in 1..8 |-> 255 - NatBytes8(-n - 1)[i]]

(***************************************************************************)
(* Go values handed to msgpack                                             *)
(***************************************************************************)
VNil == [t |-> "nil", v |-> 0]
VStr(s) == [t |-> "str", v |-> s]
VInt(n) == [t |-> "int", v |-> n]
VInt64(n) == [t |-> "int64", v |-> n]
VBool(b) == [t |-> "bool", v |-> b]
VArr(a) == [t |-> "arr", v |-> a]
\* a Go map[string]interface{}: a function from keys to values, no order
VMap(f) == [t |-> "map", v |-> f]
\* a Go struct: its encoded fields in declaration order, <<name, value>>
VStruct(fs) == [t |-> "struct", v |-> fs]

\* Go's string comparison (bytewise)
RECURSIVE StrLess(_, _)
StrLess(a, b) ==
  IF b = <<>> THEN FALSE
  ELSE IF a = <<>> THEN TRUE
  ELSE IF CharCode(Head(a)) # CharCode(Head(b)) THEN CharCode(Head(a)) < CharCode(Head(b))
  ELSE StrLess(Tail(a), Tail(b))

\* sort.Strings over the keys of a map
RECURSIVE SortKeys(_)
SortKeys(S) ==
  IF S = {} THEN <<>>
  ELSE LET m == CHOOSE x \in S : \A y \in S \ {x} : StrLess(x, y)
       IN  <<m>> \o SortKeys(S \ {m})

\* The seed-th permutation of a sequence (factorial number system).
RECURSIVE NthPerm(_, _)
NthPerm(s, seed) ==
  IF s = <<>> THEN <<>>
  ELSE LET i == (seed % Len(s)) + 1
       IN  <<s[i]>> \o NthPerm(SubSeq(s, 1, i - 1) \o SubSeq(s, i + 1, Len(s)), seed \div Len(s))


(***************************************************************************)
(* vmihailenco/msgpack/v5, as far as the actions use it                    *)
(***************************************************************************)
\* Encoder.EncodeString: fixstr below 32 bytes, str8 otherwise
MsgpackString(s) ==
  (IF Len(s) < 32 THEN <<160 + Len(s)>> ELSE <<217, Len(s)>>) \o StrBytes(s)

\* Encoder.EncodeInt: the shortest form that holds the value
MsgpackInt(n) ==
  IF n >= 0 /\ n <= 127 THEN <<n>>
  ELSE IF n >= 0 /\ n <= 255 THEN <<204, n>>
  ELSE IF n >= 0 /\ n <= 65535 THEN <<205, n \div 256, n % 256>>
  ELSE IF n >= 0 THEN <<206>> \o SubSeq(NatBytes8(n), 5, 8)
  ELSE IF n >= -32 THEN <<256 + n>>
  ELSE <<211>> \o PutUint64(n)

\* Encoder.encodeInt64Cond: a Go int64 is written in nine bytes unless
\* UseCompactInts is set
MsgpackInt64(n, compact) == IF compact THEN MsgpackInt(n) ELSE <<211>> \o PutUint64(n)

MsgpackMapLen(n) == IF n < 16 THEN <<128 + n>> ELSE <<222, n \div 256, n % 256>>
MsgpackArrayLen(n) == IF n < 16 THEN <<144 + n>> ELSE <<220, n \div 256, n % 256>>

Reverse(s) == [i \in 1..Len(s) |-> s[Len(s) + 1 - i]]

\* The order in which the encoder visits the keys of a Go map: sorted when
\* SetSortMapKeys(true) was called, otherwise the order of a range over the
\* map, which the language leaves unspecified; seed selects it (the
\* permutations are counted from the descending order of the keys).
MapKeyOrder(f, sortKeys, seed) ==
  IF sortKeys THEN SortKeys(DOMAIN f) ELSE NthPerm(Reverse(SortKeys(DOMAIN f)), seed)

\* Encoder.Encode
RECURSIVE Msgpack(_, _, _, _)
Msgpack(val, sortKeys, compact, seed) ==
  CASE val.t = "nil"   -> <<192>>
    [] val.t = "bool"  -> IF val.v THEN <<195>> ELSE <<194>>
    [] val.t = "int"   -> MsgpackInt(val.v)
    [] val.t = "int64" -> MsgpackInt64(val.v, compact)
    [] val.t = "str"   -> MsgpackString(val.v)
    [] val.t = "arr"   ->
         MsgpackArrayLen(Len(val.v)) \o
         Flatten([i \in 1..Len(val.v) |-> Msgpack(val.v[i], sortKeys, compact, seed)])
    [] val.t = "struct" ->
         MsgpackMapLen(Len(val.v)) \o
         Flatten([i \in 1..Len(val.v) |->
                    MsgpackString(val.v[i][1]) \o Msgpack(val.v[i][2], sortKeys, compact, seed)])
    [] val.t = "map"   ->
         LET ks == MapKeyOrder(val.v, sortKeys, seed)
         IN  MsgpackMapLen(Len(ks)) \o
             Flatten([i \in 1..Len(ks) |->
                        MsgpackString(ks[i]) \o Msgpack(val.v[ks[i]], sortKeys, compact, seed)])

\* msgpack.Marshal: a fresh encoder, no flag set
MsgpackMarshal(val, seed) == Msgpack(val, FALSE, FALSE, seed)


(***************************************************************************)
(* Optional arguments (pointers to string or int64): set is FALSE for nil   *)
(***************************************************************************)
NilStr == [set |-> FALSE, val |-> <<>>]
PtrStr(s) == [set |-> TRUE, val |-> s]
NilInt == [set |-> FALSE, val |-> 0]
PtrInt(n) == [set |-> TRUE, val |-> n]

(***************************************************************************)
(* Keccak-256: injective in its input; a digest is 32 bytes long.          *)
(***************************************************************************)
Keccak256(data) == [keccak256 |-> data, len |-> 32]
NoHash == [keccak256 |-> <<>>, len |-> 0]

(***************************************************************************)
(* ActionHash, first revision (returns an error) and second revision       *)
(* (panics).  A result records the pre-image and the sections it was       *)
(* assembled from.                                                         *)
(***************************************************************************)
HashFailed(how) ==
  [status |-> how, ser |-> <<>>, nonceSec |-> <<>>, vaultSec |-> <<>>, expSec |-> <<>>,
   data |-> <<>>, hash |-> NoHash]

HashDone(ser, nonceSec, vaultSec, expSec) ==
  [status |-> "ok", ser |-> ser, nonceSec |-> nonceSec, vaultSec |-> vaultSec,
   expSec |-> expSec, data |-> ser \o nonceSec \o vaultSec \o expSec,
   hash |-> Keccak256(ser \o nonceSec \o vaultSec \o expSec)]

AddressToBytes1(address) ==
  LET lower == ToLower(address)
      bare == IF HasPrefix(lower, <<"0", "x">>) THEN SubSeq(lower, 3, Len(lower)) ELSE lower
  IN  HexDecodeString(bare)

ActionHash1(action, vaultAddress, nonce, expiresAfter, seed) ==
  LET ser == MsgpackMarshal(action, seed)
      nonceBytes == PutUint64(nonce)
      vault == AddressToBytes1(vaultAddress.val)
      vaultSec == IF ~vaultAddress.set THEN <<0>> ELSE <<1>> \o vault.bytes
      expSec == IF expiresAfter.set THEN <<1>> \o PutUint64(expiresAfter.val) ELSE <<0>>
  IN  IF vaultAddress.set /\ vault.err
      THEN HashFailed("error")
      ELSE HashDone(ser, nonceBytes, vaultSec, expSec)

\* the error of hex.DecodeString is dropped, the bytes decoded so far are kept
addressToBytes2(address) == HexDecodeString(TrimPrefix(address, <<"0", "x">>)).bytes

\* a variant of the second revision that writes the expiry as the first does
ActionHash2_ExpiryAsFirst(action, vaultAddress, nonce, expiresAfter, seed) ==
  LET ser == Msgpack(action, TRUE, TRUE, seed)
      vaultSec == IF ~vaultAddress.set THEN <<0>> ELSE <<1>> \o addressToBytes2(vaultAddress.val)
      expSec == IF expiresAfter.set THEN <<1>> \o PutUint64(expiresAfter.val) ELSE <<0>>
  IN  IF nonce < 0 THEN HashFailed("panic")
      ELSE IF expiresAfter.set /\ expiresAfter.val < 0 THEN HashFailed("panic")
      ELSE HashDone(ser, PutUint64(nonce), vaultSec, expSec)

ActionHash2(action, vaultAddress, nonce, expiresAfter, seed) ==
  LET ser == Msgpack(action, TRUE, TRUE, seed)
      nonceBytes == PutUint64(nonce)
      vaultSec == IF ~vaultAddress.set THEN <<0>> ELSE <<1>> \o addressToBytes2(vaultAddress.val)
      expSec == IF expiresAfter.set THEN <<0>> \o PutUint64(expiresAfter.val) ELSE <<>>
  IN  IF nonce < 0 THEN HashFailed("panic")
      ELSE IF expiresAfter.set /\ expiresAfter.val < 0 THEN HashFailed("panic")
      ELSE HashDone(ser, nonceBytes, vaultSec, expSec)


(***************************************************************************)
(* Values of a typed-data message (Go interface{} values by dynamic type)  *)
(***************************************************************************)
TStr(s) == [k |-> "string", s |-> s, n |-> 0]
TBig(n) == [k |-> "bigint", s |-> <<>>, n |-> n]
TInt64(n) == [k |-> "int64", s |-> <<>>, n |-> n]
TUint64(n) == [k |-> "uint64", s |-> <<>>, n |-> n]
TBool(b) == [k |-> "bool", s |-> <<>>, n |-> IF b THEN 1 ELSE 0]
THash(h) == [k |-> "bytes", s |-> <<>>, n |-> 0, h |-> h]

\* fmt.Sprintf("%d", n)
RECURSIVE NatDigits(_)
NatDigits(n) == IF n < 10 THEN <<Digits[n + 1]>> ELSE NatDigits(n \div 10) \o <<Digits[(n % 10) + 1]>>
FormatInt(n) == IF n < 0 THEN <<"-">> \o NatDigits(-n) ELSE NatDigits(n)

RECURSIVE DigitsValue(_)
DigitsValue(s) ==
  IF s = <<>> THEN 0 ELSE 10 * DigitsValue(SubSeq(s, 1, Len(s) - 1)) + HexVal(s[Len(s)])
RECURSIVE HexValue(_)
HexValue(s) ==
  IF s = <<>> THEN 0 ELSE 16 * HexValue(SubSeq(s, 1, Len(s) - 1)) + HexVal(s[Len(s)])

\* strconv.ParseUint(s, 10, 64): one or more decimal digits, no sign
ParseUint(s) ==
  LET ok == s # <<>> /\ \A i \in 1..Len(s) : InSeq(Digits, s[i])
  IN  [ok |-> ok, n |-> IF ok THEN DigitsValue(s) ELSE 0]

\* big.Int.SetString(s, 0) and math.ParseBig256: decimal digits, or hex digits
\* after a 0x prefix
ParseDigits(body, base) ==
  IF body # <<>> /\ \A i \in 1..Len(body) : HexVal(body[i]) < base
  THEN [ok |-> TRUE, n |-> IF base = 16 THEN HexValue(body) ELSE DigitsValue(body)]
  ELSE [ok |-> FALSE, n |-> 0]
ParseBig(s) ==
  IF HasPrefix(s, <<"0", "x">>) \/ HasPrefix(s, <<"0", "X">>)
  THEN ParseDigits(SubSeq(s, 3, Len(s)), 16)
  ELSE ParseDigits(s, 10)

(***************************************************************************)
(* Program constants                                                       *)
(***************************************************************************)
MainnetChainName == <<"M","a","i","n","n","e","t">>
TestnetChainName == <<"T","e","s","t","n","e","t">>
SignatureChainID == <<"0","x","6","6","e","e","e">>
EIP712ChainID == 1337
ZeroAddress == <<"0", "x">> \o Rep(<<"0">>, 40)

Field(name, type) == [name |-> name, type |-> type]
EIP712DomainTypes ==
  <<Field("name", "string"), Field("version", "string"),
    Field("chainId", "uint256"), Field("verifyingContract", "address")>>
AgentTypes == <<Field("source", "string"), Field("connectionId", "bytes32")>>
USDSendSignTypes ==
  <<Field("hyperliquidChain", "string"), Field("destination", "string"),
    Field("amount", "string"), Field("time", "uint64")>>
SpotTransferSignTypes ==
  <<Field("hyperliquidChain", "string"), Field("destination", "string"),
    Field("token", "string"), Field("amount", "string"), Field("time", "uint64")>>
WithdrawSignTypes ==
  <<Field("hyperliquidChain", "string"), Field("destination", "string"),
    Field("amount", "string"), Field("time", "uint64")>>
USDClassTransferSignTypes ==
  <<Field("hyperliquidChain", "string"), Field("amount", "string"),
    Field("toPerp", "bool"), Field("nonce", "uint64")>>
agentSignTypes ==
  <<Field("hyperliquidChain", "string"), Field("agentAddress", "address"),
    Field("agentName", "string"), Field("nonce", "uint64")>>

FieldNames(types) == {types[i].name : i \in 1..Len(types)}

(***************************************************************************)
(* Typed data and its hash (go-ethereum apitypes)                          *)
(***************************************************************************)
\* common.IsHexAddress
IsHexAddress(s) ==
  LET body == IF HasPrefix(s, <<"0", "x">>) \/ HasPrefix(s, <<"0", "X">>)
              THEN SubSeq(s, 3, Len(s)) ELSE s
  IN  Len(body) = 40 /\ \A i \in 1..40 : HexVal(body[i]) <= 15

\* TypedData.EncodeData on one field: whether the value is accepted for the
\* field's type (parseInteger for the integer types)
FieldAccepted(type, val) ==
  CASE type = "string"  -> val.k = "string"
    [] type = "bool"    -> val.k = "bool"
    [] type = "address" -> val.k = "string" /\ IsHexAddress(val.s)
    [] type = "bytes32" -> val.k = "bytes"
    [] OTHER            -> \/ val.k = "bigint" /\ val.n >= 0
                           \/ val.k = "string" /\ (val.s = <<>> \/ ParseBig(val.s).ok)

\* the value that is hashed: an integer given as a string is parsed first
FieldEncoded(type, val) ==
  IF type \in {"uint64", "uint256"} /\ val.k = "string"
  THEN TBig(ParseBig(val.s).n)
  ELSE val

\* TypedData.HashStruct(primaryType, message): fails when the message has
\* more entries than the type has fields, lacks a field, or holds a value
\* the field's type does not accept
HashStruct(primaryType, types, message) ==
  IF /\ Cardinality(DOMAIN message) <= Len(types)
     /\ FieldNames(types) \subseteq DOMAIN message
     /\ \A i \in 1..Len(types) : FieldAccepted(types[i].type, message[types[i].name])
  THEN [ok |-> TRUE,
        hash |-> [struct |-> primaryType,
                  fields |-> [i \in 1..Len(types) |->
                                <<types[i].name, types[i].type,
                                  FieldEncoded(types[i].type, message[types[i].name])>>]]]
  ELSE [ok |-> FALSE, hash |-> [struct |-> "", fields |-> <<>>]]

\* TypedDataDomain.Map
DomainMap(domain) ==
  [name |-> TStr(domain.name), version |-> TStr(domain.version),
   chainId |-> TBig(domain.chainId), verifyingContract |-> TStr(domain.verifyingContract)]

\* crypto.Keccak256(0x19 0x01, domainSeparator, hashStruct(message))
FinalHash(domainSeparator, structHash) ==
  [prefix |-> <<25, 1>>, domainSeparator |-> domainSeparator, structHash |-> structHash]


(***************************************************************************)
(* Payload builders                                                        *)
(***************************************************************************)
ExchangeDomainName == <<"E","x","c","h","a","n","g","e">>
UserSignedDomainName ==
  <<"H","y","p","e","r","l","i","q","u","i","d","S","i","g","n",
    "T","r","a","n","s","a","c","t","i","o","n">>

NoTyped ==
  [primaryType |-> "", types |-> <<>>,
   domain |-> [name |-> <<>>, version |-> <<>>, chainId |-> 0, verifyingContract |-> <<>>],
   message |-> <<>>]

\* first revision: a struct whose ConnectionId is the hash copied into a
\* 32-byte array; second revision: a map holding the hash slice itself
\* a variant with the two sources exchanged
ConstructPhantomAgent1_Swapped(hash, isMainnet) ==
  [Source |-> IF isMainnet THEN <<"b">> ELSE <<"a">>, ConnectionId |-> hash]

ConstructPhantomAgent1(hash, isMainnet) ==
  [Source |-> IF isMainnet THEN <<"a">> ELSE <<"b">>, ConnectionId |-> hash]

ConstructPhantomAgent2(hash, isMainnet) ==
  [source |-> TStr(IF isMainnet THEN <<"a">> ELSE <<"b">>), connectionId |-> THash(hash)]

L1Domain ==
  [name |-> ExchangeDomainName, version |-> <<"1">>, chainId |-> EIP712ChainID,
   verifyingContract |-> ZeroAddress]

L1Payload1(phantomAgent) ==
  [primaryType |-> "Agent", types |-> AgentTypes, domain |-> L1Domain,
   message |-> [source |-> TStr(phantomAgent.Source),
                connectionId |-> THash(phantomAgent.ConnectionId)]]

L1Payload2(phantomAgent) ==
  [primaryType |-> "Agent", types |-> AgentTypes, domain |-> L1Domain,
   message |-> phantomAgent]

\* a variant that copies every entry but signatureChainId into the message
UserSignedPayload_Unfiltered(primaryType, payloadTypes, action) ==
  [primaryType |-> primaryType, types |-> payloadTypes,
   domain |-> [name |-> UserSignedDomainName, version |-> <<"1">>,
               chainId |-> ParseBig(SignatureChainID).n,
               verifyingContract |-> ZeroAddress],
   message |-> [k \in DOMAIN action \ {"signatureChainId"} |-> action[k]]]

UserSignedPayload(primaryType, payloadTypes, action) ==
  LET chainIdStr == IF "signatureChainId" \in DOMAIN action
                       /\ action["signatureChainId"].k = "string"
                    THEN action["signatureChainId"].s
                    ELSE SignatureChainID
      chainId == ParseBig(chainIdStr)
      validFields == FieldNames(payloadTypes)
  IN  [primaryType |-> primaryType, types |-> payloadTypes,
       domain |-> [name |-> UserSignedDomainName, version |-> <<"1">>,
                   chainId |-> IF chainId.ok THEN chainId.n ELSE -1,
                   verifyingContract |-> ZeroAddress],
       message |-> [k \in {x \in DOMAIN action : x # "signatureChainId" /\ x \in validFields}
                      |-> action[k]]]

(***************************************************************************)
(* crypto.Sign is deterministic (RFC 6979) but its value is not computed   *)
(* here: the signature of a digest not signed before is any signature      *)
(* (fresh), and the latest answer is remembered (memo), so that signing    *)
(* the same digest again with the same key returns the same 65 bytes:      *)
(* r and s, 32 bytes each, and the recovery id 0 or 1.                     *)
(***************************************************************************)
NoSig65 == [r |-> <<>>, s |-> <<>>, v |-> 0]
NoFinalHash == FinalHash([struct |-> "", fields |-> <<>>], [struct |-> "", fields |-> <<>>])
NoSigned == [key |-> "", digest |-> NoFinalHash, sig |-> NoSig65]

CryptoSign(digest, privateKey, memo, fresh) ==
  IF memo.key = privateKey /\ memo.digest = digest THEN memo.sig ELSE fresh

SignFailed(how, data) ==
  [status |-> how, r |-> <<>>, s |-> <<>>, v |-> 0, typed |-> data,
   finalHash |-> NoFinalHash, signature |-> NoSig65]

NotSigned == SignFailed("none", NoTyped)

\* the hash SignInner hands to crypto.Sign
HashedBoth(dom, msg) == [ok |-> msg.ok /\ dom.ok, hash |-> FinalHash(dom.hash, msg.hash)]
TypedDataHash(data) ==
  HashedBoth(HashStruct("EIP712Domain", EIP712DomainTypes, DomainMap(data.domain)),
             HashStruct(data.primaryType, data.types, data.message))

\* hexutil.EncodeBig of the integer the bytes spell: no leading zero digits
RECURSIVE TrimLeadingZeros(_)
TrimLeadingZeros(s) ==
  IF s # <<>> /\ Head(s) = "0" THEN TrimLeadingZeros(Tail(s)) ELSE s
EncodeBig(bytes) ==
  LET ds == TrimLeadingZeros(HexEncodeToString(bytes))
  IN  <<"0", "x">> \o (IF ds = <<>> THEN <<"0">> ELSE ds)

\* A result keeps, beside r, s and v, what was signed: the typed data, the
\* final hash and the raw signature.
SignatureResult1(data, finalHash, signature) ==
  [status |-> "ok",
   r |-> <<"0", "x">> \o HexEncodeToString(signature.r),
   s |-> <<"0", "x">> \o HexEncodeToString(signature.s),
   v |-> (signature.v + 27) % 256,
   typed |-> data, finalHash |-> finalHash, signature |-> signature]
SignHashed1(privateKey, data, finalHash, memo, fresh) ==
  IF ~finalHash.ok THEN SignFailed("error", data)
  ELSE SignatureResult1(data, finalHash.hash,
                        CryptoSign(finalHash.hash, privateKey, memo, fresh))
\* first revision: r and s are hex.EncodeToString of 32 bytes each
SignInner1(privateKey, data, memo, fresh) ==
  SignHashed1(privateKey, data, TypedDataHash(data), memo, fresh)

SignatureResult2(typedData, msgHash, signature) ==
  [status |-> "ok",
   r |-> EncodeBig(signature.r),
   s |-> EncodeBig(signature.s),
   v |-> signature.v + 27,
   typed |-> typedData, finalHash |-> msgHash, signature |-> signature]
SignHashed2(privateKey, typedData, msgHash, memo, fresh) ==
  IF ~msgHash.ok THEN SignFailed("error", typedData)
  ELSE SignatureResult2(typedData, msgHash.hash,
                        CryptoSign(msgHash.hash, privateKey, memo, fresh))
\* second revision: r and s are hexutil.EncodeBig of the two integers
SignInner2(privateKey, typedData, memo, fresh) ==
  SignHashed2(privateKey, typedData, TypedDataHash(typedData), memo, fresh)

\* the oracle after a call of SignInner
Remember(memo, privateKey, sig) ==
  IF sig.status = "ok"
  THEN [key |-> privateKey, digest |-> sig.finalHash, sig |-> sig.signature]
  ELSE memo

(***************************************************************************)
(* Signing an exchange-native (L1) action                                  *)
(***************************************************************************)
\* what follows the call of ActionHash: its error is returned, its hash signed
SignActionHash1(privateKey, hash, isMainnet, memo, fresh) ==
  [hashed |-> hash,
   sig |-> IF hash.status # "ok" THEN SignFailed(hash.status, NoTyped)
           ELSE SignInner1(privateKey,
                           L1Payload1(ConstructPhantomAgent1(hash.hash, isMainnet)),
                           memo, fresh)]

SignActionHash2(privateKey, hash, isMainnet, memo, fresh) ==
  [hashed |-> hash,
   sig |-> IF hash.status # "ok" THEN SignFailed(hash.status, NoTyped)
           ELSE SignInner2(privateKey,
                           L1Payload2(ConstructPhantomAgent2(hash.hash, isMainnet)),
                           memo, fresh)]

\* a variant that hashes the account address, when one is given, in the
\* place of the vault address
SignL1ActionWithAccount1_AccountAsPool(privateKey, action, activePool, nonce, expiresAfter, isMainnet, accountAddress, seed, memo, fresh) ==
  SignActionHash1(privateKey,
                  ActionHash1(action, IF accountAddress.set THEN accountAddress ELSE activePool,
                              nonce, expiresAfter, seed),
                  isMainnet, memo, fresh)

SignL1ActionWithAccount1(privateKey, action, activePool, nonce, expiresAfter, isMainnet, accountAddress, seed, memo, fresh) ==
  SignActionHash1(privateKey, ActionHash1(action, activePool, nonce, expiresAfter, seed),
                  isMainnet, memo, fresh)

SignL1Action1(privateKey, action, activePool, nonce, expiresAfter, isMainnet, seed, memo, fresh) ==
  SignL1ActionWithAccount1(privateKey, action, activePool, nonce, expiresAfter, isMainnet,
                           NilStr, seed, memo, fresh)

SignL1Action2(privateKey, action, vaultAddress, timestamp, expiresAfter, isMainnet, seed, memo, fresh) ==
  SignActionHash2(privateKey, ActionHash2(action, vaultAddress, timestamp, expiresAfter, seed),
                  isMainnet, memo, fresh)

(***************************************************************************)
(* Signing a user-authorized action.  An action is a Go map from field     *)
(* names to values, here a function from names to typed values.            *)
(***************************************************************************)
\* m[k] = v on a Go map
MapSet(m, k, v) == [x \in DOMAIN m \cup {k} |-> IF x = k THEN v ELSE m[x]]

\* the copy SignUserSignedAction signs: signatureChainId and hyperliquidChain
\* are assigned after the caller's entries were copied
UserSignAction(action, isMainnet) ==
  MapSet(MapSet(action, "signatureChainId", TStr(SignatureChainID)),
         "hyperliquidChain",
         TStr(IF isMainnet THEN MainnetChainName ELSE TestnetChainName))

SignUserSignedAction1(privateKey, action, payloadTypes, primaryType, isMainnet, memo, fresh) ==
  SignInner1(privateKey,
             UserSignedPayload(primaryType, payloadTypes, UserSignAction(action, isMainnet)),
             memo, fresh)

SignUserSignedAction2(privateKey, action, payloadTypes, primaryType, isMainnet, memo, fresh) ==
  SignInner2(privateKey,
             UserSignedPayload(primaryType, payloadTypes, UserSignAction(action, isMainnet)),
             memo, fresh)

\* the conversion of a time or nonce entry: a string of decimal digits, a
\* non-negative int64 and a uint64 become a big integer, anything else stays
ToBigInt(v) ==
  CASE v.k = "string" -> IF ParseUint(v.s).ok THEN TBig(ParseUint(v.s).n) ELSE v
    [] v.k = "int64"  -> IF v.n >= 0 THEN TBig(v.n) ELSE v
    [] v.k = "uint64" -> TBig(v.n)
    [] OTHER          -> v

USDSendPrimaryType == "HyperliquidTransaction:UsdSend"
SpotSendPrimaryType == "HyperliquidTransaction:SpotSend"
WithdrawPrimaryType == "HyperliquidTransaction:Withdraw"
UsdClassTransferPrimaryType == "HyperliquidTransaction:UsdClassTransfer"
ApproveAgentPrimaryType == "HyperliquidTransaction:ApproveAgent"

SignUSDTransferAction(privateKey, action, isMainnet, memo, fresh) ==
  LET signAction == [k \in DOMAIN action \ {"type"} |->
                       IF k = "time" THEN ToBigInt(action[k]) ELSE action[k]]
  IN  SignUserSignedAction1(privateKey, signAction, USDSendSignTypes, USDSendPrimaryType,
                            isMainnet, memo, fresh)

SignSpotTransferAction(privateKey, action, isMainnet, memo, fresh) ==
  SignUserSignedAction1(privateKey, action, SpotTransferSignTypes, SpotSendPrimaryType,
                        isMainnet, memo, fresh)

SignWithdrawFromBridgeAction(privateKey, action, isMainnet, memo, fresh) ==
  SignUserSignedAction1(privateKey, action, WithdrawSignTypes, WithdrawPrimaryType,
                        isMainnet, memo, fresh)

SignUSDClassTransferAction(privateKey, action, isMainnet, memo, fresh) ==
  SignUserSignedAction1(privateKey, action, USDClassTransferSignTypes,
                        UsdClassTransferPrimaryType, isMainnet, memo, fresh)

SignAgent(privateKey, action, isMainnet, memo, fresh) ==
  LET signAction == [k \in DOMAIN action |->
                       IF k = "nonce" THEN ToBigInt(action[k]) ELSE action[k]]
  IN  SignUserSignedAction1(privateKey, signAction, agentSignTypes, ApproveAgentPrimaryType,
                            isMainnet, memo, fresh)

(***************************************************************************)
(* Order wires and the order action                                        *)
(***************************************************************************)
K_type == <<"t","y","p","e">>
K_orders == <<"o","r","d","e","r","s">>
K_grouping == <<"g","r","o","u","p","i","n","g">>
K_builder == <<"b","u","i","l","d","e","r">>
K_limit == <<"l","i","m","i","t">>
K_trigger == <<"t","r","i","g","g","e","r">>
K_tif == <<"t","i","f">>
K_isMarket == <<"i","s","M","a","r","k","e","t">>
K_triggerPx == <<"t","r","i","g","g","e","r","P","x">>
K_tpsl == <<"t","p","s","l">>

NoLimit == [set |-> FALSE, tif |-> <<>>]
NoTrigger == [set |-> FALSE, isMarket |-> FALSE, triggerPx |-> <<>>, tpsl |-> <<>>]
LimitWire(tif) == [Limit |-> [set |-> TRUE, tif |-> tif], Trigger |-> NoTrigger]
TriggerWire(isMarket, triggerPx, tpsl) ==
  [Limit |-> NoLimit,
   Trigger |-> [set |-> TRUE, isMarket |-> isMarket, triggerPx |-> triggerPx, tpsl |-> tpsl]]

\* types.OrderTypeWire as msgpack sees it: both fields are omitempty pointers
OrderTypeWireValue(t) ==
  VStruct((IF t.Limit.set
           THEN << <<K_limit, VStruct(<< <<K_tif, VStr(t.Limit.tif)>> >>)>> >>
           ELSE <<>>) \o
          (IF t.Trigger.set
           THEN << <<K_trigger, VStruct(<< <<K_isMarket, VBool(t.Trigger.isMarket)>>,
                                           <<K_triggerPx, VStr(t.Trigger.triggerPx)>>,
                                           <<K_tpsl, VStr(t.Trigger.tpsl)>> >>)>> >>
           ELSE <<>>))

\* types.OrderWire as msgpack sees it: the fields in declaration order, c
\* left out when nil
OrderWireValue(w) ==
  VStruct(<< <<<<"a">>, VInt(w.A)>>, <<<<"b">>, VBool(w.B)>>, <<<<"p">>, VStr(w.P)>>,
             <<<<"s">>, VStr(w.S)>>, <<<<"r">>, VBool(w.R)>>,
             <<<<"t">>, OrderTypeWireValue(w.T)>> >> \o
          (IF w.C.set THEN << <<<<"c">>, VStr(w.C.val)>> >> ELSE <<>>))

\* types.BuilderInfo has no msgpack tags: the Go field names are the keys
BuilderInfoValue(builder) ==
  VStruct(<< <<<<"B">>, VStr(builder.B)>>, <<<<"F">>, VInt(builder.F)>> >>)

NoBuilder == [set |-> FALSE, B |-> <<>>, F |-> 0]

OrderWiresToOrderAction1(orderWires, builder) ==
  LET action == (K_type :> VStr(<<"o","r","d","e","r">>)) @@
                (K_orders :> VArr([i \in 1..Len(orderWires) |-> OrderWireValue(orderWires[i])])) @@
                (K_grouping :> VStr(<<"n","a">>))
  IN  VMap(IF builder.set THEN action @@ (K_builder :> BuilderInfoValue(builder)) ELSE action)

ConvertOrderTypeWireToMap(orderType) ==
  IF orderType.Limit.set
  THEN VMap(K_limit :> VMap(K_tif :> VStr(orderType.Limit.tif)))
  ELSE IF orderType.Trigger.set
  THEN VMap(K_trigger :> VMap((K_triggerPx :> VStr(orderType.Trigger.triggerPx)) @@
                              (K_isMarket :> VBool(orderType.Trigger.isMarket)) @@
                              (K_tpsl :> VStr(orderType.Trigger.tpsl))))
  ELSE VMap(<<>>)

OrderWiresToOrderAction2(orderWires, builder) ==
  LET orderMap(wire) ==
        LET m == (<<"a">> :> VInt(wire.A)) @@ (<<"b">> :> VBool(wire.B)) @@
                 (<<"p">> :> VStr(wire.P)) @@ (<<"s">> :> VStr(wire.S)) @@
                 (<<"r">> :> VBool(wire.R)) @@ (<<"t">> :> ConvertOrderTypeWireToMap(wire.T))
        IN  VMap(IF wire.C.set THEN m @@ (<<"c">> :> VStr(wire.C.val)) ELSE m)
      action == (K_type :> VStr(<<"o","r","d","e","r">>)) @@
                (K_orders :> VArr([i \in 1..Len(orderWires) |-> orderMap(orderWires[i])])) @@
                (K_grouping :> VStr(<<"n","a">>))
  IN  VMap(IF builder.set
           THEN action @@ (K_builder :> VMap((<<"b">> :> VStr(builder.B)) @@
                                             (<<"f">> :> VInt(builder.F))))
           ELSE action)


(***************************************************************************)
(* Bounds and inputs                                                       *)
(***************************************************************************)
\* the largest order batch
MaxOrders == 2
\* how many iteration orders of a Go map are told apart
NumSeeds == 2
Seeds == 0..(NumSeeds - 1)

GoldenOrder ==
  [A |-> 4, B |-> TRUE, P |-> <<"1","1","0","0">>, S |-> <<"0",".","2">>, R |-> FALSE,
   T |-> LimitWire(<<"G","t","c">>), C |-> NilStr]
TriggerOrder ==
  [A |-> 10001, B |-> FALSE, P |-> <<"1","5","0","0">>, S |-> <<"0",".","0","0","1">>,
   R |-> TRUE, T |-> TriggerWire(TRUE, <<"1","5","0","0">>, <<"s","l">>),
   C |-> PtrStr(<<"0", "x">> \o Rep(<<"0">>, 31) \o <<"7">>)]
WirePool == <<GoldenOrder, TriggerOrder>>
BatchOf(n) == [i \in 1..n |-> WirePool[((i - 1) % Len(WirePool)) + 1]]

VaultAddr == <<"0", "x">> \o Rep(<<"1", "f">>, 20)
BuilderAddr == <<"0", "x">> \o Rep(<<"c", "d">>, 20)
TheBuilder == [set |-> TRUE, B |-> BuilderAddr, F |-> 10]

HarnessKey == "key1"
Nonces == {-1, 66051}
Vaults ==
  {NilStr, PtrStr(VaultAddr), PtrStr(<<>>),
   PtrStr(<<"0", "X">> \o Rep(<<"1", "F">>, 20)), PtrStr(<<"0", "x", "z", "z">>)}
Expiries == {NilInt, PtrInt(66052), PtrInt(-2)}
HarnessActs ==
  {[kind |-> "order", n |-> n, builder |-> b] : n \in 1..MaxOrders, b \in BOOLEAN}
  \cup {[kind |-> "cancelAll", n |-> 0, builder |-> FALSE]}

CancelAllAction == VMap(K_type :> VStr(<<"c","a","n","c","e","l","A","l","l">>))

\* the action value the first and the second revision hash for an input
ActionOf1(act) ==
  IF act.kind = "order"
  THEN OrderWiresToOrderAction1(BatchOf(act.n), IF act.builder THEN TheBuilder ELSE NoBuilder)
  ELSE CancelAllAction
ActionOf2(act) ==
  IF act.kind = "order"
  THEN OrderWiresToOrderAction2(BatchOf(act.n), IF act.builder THEN TheBuilder ELSE NoBuilder)
  ELSE CancelAllAction

\* answers of crypto.Sign that are told apart: one whose r starts with a
\* zero byte, one whose s starts with a zero hex digit, one without either
Sig65Set ==
  {[r |-> <<0>> \o Rep(<<171>>, 31), s |-> Rep(<<205>>, 32), v |-> 0],
   [r |-> Rep(<<171>>, 32), s |-> <<10>> \o Rep(<<205>>, 31), v |-> 1],
   [r |-> Rep(<<171>>, 32), s |-> Rep(<<205>>, 32), v |-> 1]}

(***************************************************************************)
(* State                                                                   *)
(***************************************************************************)
VARIABLES
  hin,     \* the arguments of the calls of ActionHash and SignL1Action
  hfn,     \* the function that was called with them, "" before the first call
  hout,    \* the results of the calls so far, at most two
  signed,  \* the latest answer of crypto.Sign
  uin,     \* the arguments of a call that signs a user-authorized action
  uout,    \* the results of such calls so far, at most one
  ex,      \* the fields of the Exchange
  clock,   \* the wall clock in milliseconds
  last,    \* the latest call of an Exchange method and the request it posted
  meta,    \* the metadata NewInfo is given or fetches
  info,    \* the maps of the Info that NewInfo built
  asked,   \* the latest call of NameToAsset and what it returned
  calls,   \* the calls of Exchange methods in progress, one per goroutine
  fin,     \* the float64 a conversion is called with
  fout,    \* the results of such calls so far, at most one
  heap,    \* the Go maps a caller and the signing functions hold, by name
  ws,      \* the fields of the WebsocketManager
  pumps,   \* the goroutines of the WebsocketManager and of its callers
  conns    \* the connections dialed so far and what was written to each

vars == <<hin, hfn, hout, signed, uin, uout, ex, clock, last, meta, info, asked, calls, fin, fout, heap, ws, pumps, conns>>
infoVars == <<meta, info, asked>>
callVars == <<calls>>
pureVars == <<fin, fout, heap>>
wsVars == <<ws, pumps, conns>>
hashVars == <<hin, hfn, hout>>
userVars == <<uin, uout>>
exVars == <<ex, clock, last>>

\* values of the variables a specification does not use
NoHashInput ==
  [act |-> [kind |-> "", n |-> 0, builder |-> FALSE], nonce |-> 0, vault |-> NilStr,
   expires |-> NilInt, isMainnet |-> FALSE]
NoUserInput ==
  [kind |-> "", uintVal |-> TBig(0), extras |-> {}, dropped |-> "", isMainnet |-> FALSE]
NoExchange ==
  [privateKey |-> "", vaultAddress |-> NilStr, accountAddress |-> NilStr,
   expiresAfter |-> NilInt, isMainnet |-> FALSE]
NoCall ==
  [fn |-> "", status |-> "", posted |-> FALSE, payload |-> <<>>, sig |-> NotSigned]
HashIdle == hin = NoHashInput /\ hfn = "" /\ hout = <<>>
UserIdle == uin = NoUserInput /\ uout = <<>>
ExchangeIdle == ex = NoExchange /\ clock = 0 /\ last = NoCall
InfoIdle == meta = <<>> /\ info = <<>> /\ asked = <<>>
CallsIdle == calls = <<>>
PureIdle == fin = <<>> /\ fout = <<>> /\ heap = <<>>
WsIdle == ws = <<>> /\ pumps = <<>> /\ conns = <<>>

HashInit ==
  /\ hin \in [act : HarnessActs, nonce : Nonces, vault : Vaults, expires : Expiries,
              isMainnet : BOOLEAN]
  /\ hfn = ""
  /\ hout = <<>>
  /\ signed = NoSigned
  /\ UserIdle
  /\ ExchangeIdle
  /\ InfoIdle
  /\ CallsIdle
  /\ PureIdle
  /\ WsIdle

\* Two calls are made with the same arguments: of ActionHash (either
\* revision, so that the two can be compared), or twice of one SignL1Action.
MayCall(family) == Len(hout) < 2 /\ hfn \in {"", family}

L1Run(fn, res) == [fn |-> fn, hashed |-> res.hashed, sig |-> res.sig]

CallActionHash1 ==
  /\ MayCall("ActionHash")
  /\ \E seed \in Seeds :
       hout' = Append(hout, [fn |-> "ActionHash1",
                             hashed |-> ActionHash1(ActionOf1(hin.act), hin.vault, hin.nonce,
                                                    hin.expires, seed),
                             sig |-> NotSigned])
  /\ hfn' = "ActionHash"
  /\ UNCHANGED <<hin, signed, userVars, exVars, infoVars, callVars, pureVars, wsVars>>

CallActionHash2 ==
  /\ MayCall("ActionHash")
  /\ \E seed \in Seeds :
       hout' = Append(hout, [fn |-> "ActionHash2",
                             hashed |-> ActionHash2(ActionOf2(hin.act), hin.vault, hin.nonce,
                                                    hin.expires, seed),
                             sig |-> NotSigned])
  /\ hfn' = "ActionHash"
  /\ UNCHANGED <<hin, signed, userVars, exVars, infoVars, callVars, pureVars, wsVars>>

CallSignL1Action1 ==
  /\ MayCall("SignL1Action1")
  /\ \E seed \in Seeds, fresh \in Sig65Set :
       hout' = Append(hout, L1Run("SignL1Action1",
                                  SignL1Action1(HarnessKey, ActionOf1(hin.act), hin.vault, hin.nonce,
                                                hin.expires, hin.isMainnet, seed, signed, fresh)))
  /\ signed' = Remember(signed, HarnessKey, hout'[Len(hout')].sig)
  /\ hfn' = "SignL1Action1"
  /\ UNCHANGED <<hin, userVars, exVars, infoVars, callVars, pureVars, wsVars>>

CallSignL1Action2 ==
  /\ MayCall("SignL1Action2")
  /\ \E seed \in Seeds, fresh \in Sig65Set :
       hout' = Append(hout, L1Run("SignL1Action2",
                                  SignL1Action2(HarnessKey, ActionOf2(hin.act), hin.vault, hin.nonce,
                                                hin.expires, hin.isMainnet, seed, signed, fresh)))
  /\ signed' = Remember(signed, HarnessKey, hout'[Len(hout')].sig)
  /\ hfn' = "SignL1Action2"
  /\ UNCHANGED <<hin, userVars, exVars, infoVars, callVars, pureVars, wsVars>>

HashNext ==
  \/ CallActionHash1
  \/ CallActionHash2
  \/ CallSignL1Action1
  \/ CallSignL1Action2

SpecHash == HashInit /\ [][HashNext]_vars

(***************************************************************************)
(* Calls that sign a user-authorized action (SpecUser)                     *)
(***************************************************************************)
UserKinds == {"UsdSend", "SpotSend", "Withdraw", "UsdClassTransfer", "ApproveAgent"}
KindTypes(kind) ==
  CASE kind = "UsdSend"          -> USDSendSignTypes
    [] kind = "SpotSend"         -> SpotTransferSignTypes
    [] kind = "Withdraw"         -> WithdrawSignTypes
    [] kind = "UsdClassTransfer" -> USDClassTransferSignTypes
    [] kind = "ApproveAgent"     -> agentSignTypes
    [] OTHER                     -> <<>>
KindPrimaryType(kind) ==
  CASE kind = "UsdSend"          -> USDSendPrimaryType
    [] kind = "SpotSend"         -> SpotSendPrimaryType
    [] kind = "Withdraw"         -> WithdrawPrimaryType
    [] kind = "UsdClassTransfer" -> UsdClassTransferPrimaryType
    [] kind = "ApproveAgent"     -> ApproveAgentPrimaryType
    [] OTHER                     -> ""

OtherAccount == <<"0","x","9","0","F","7","9","b","f","6","E","B","2","c","4","f","8","7","0","3","6","5","E","7","8","5","9","8","2","E","1","f","1","0","1","E","9","3","b","9","0","6">>
SomeAmount == <<"1", ".", "5">>
SomeToken == <<"P", "U", "R", "R">>
SomeName == <<"b", "o", "t">>

\* the time or nonce a caller passes: decimal digits, a big integer, an
\* int64, and a string that is not a number
UintVals == {TStr(NatDigits(66051)), TBig(66051), TInt64(66051), TStr(<<"-", "5">>)}
BaseValue(name, uintVal) ==
  CASE name \in {"time", "nonce"} -> uintVal
    [] name = "destination"       -> TStr(ToLower(OtherAccount))
    [] name = "amount"            -> TStr(SomeAmount)
    [] name = "token"             -> TStr(SomeToken)
    [] name = "toPerp"            -> TBool(TRUE)
    [] name = "agentAddress"      -> TStr(ToLower(OtherAccount))
    [] name = "agentName"         -> TStr(SomeName)
\* entries a caller may add: two that no schema names, and the two that
\* SignUserSignedAction assigns itself
ExtraKeys == {"type", "memo", "signatureChainId", "hyperliquidChain"}
ExtraValue(name) ==
  CASE name = "type"             -> TStr(<<"u","s","d","S","e","n","d">>)
    [] name = "memo"             -> TStr(<<"h","i">>)
    [] name = "signatureChainId" -> TStr(<<"0","x","a","4","b","1">>)
    [] name = "hyperliquidChain" -> TStr(<<"D","e","v","n","e","t">>)
UserAction(in) ==
  [k \in ((FieldNames(KindTypes(in.kind)) \ {"hyperliquidChain", in.dropped}) \cup in.extras) |->
     IF k \in in.extras THEN ExtraValue(k) ELSE BaseValue(k, in.uintVal)]

UserInit ==
  /\ uin \in [kind : UserKinds, uintVal : UintVals, extras : SUBSET ExtraKeys,
              dropped : {"", "amount"}, isMainnet : BOOLEAN]
  /\ uout = <<>>
  /\ signed = NoSigned
  /\ HashIdle
  /\ ExchangeIdle
  /\ InfoIdle
  /\ CallsIdle
  /\ PureIdle
  /\ WsIdle

UserResult(fn, sig) == [fn |-> fn, typed |-> sig.typed, sig |-> sig]

CallUserSignedPayload ==
  /\ uout = <<>>
  /\ uout' = <<[fn |-> "UserSignedPayload",
                typed |-> UserSignedPayload(KindPrimaryType(uin.kind), KindTypes(uin.kind),
                                            UserAction(uin)),
                sig |-> NotSigned]>>
  /\ UNCHANGED <<uin, signed, hashVars, exVars, infoVars, callVars, pureVars, wsVars>>

CallSignUserSignedAction1 ==
  /\ uout = <<>>
  /\ \E fresh \in Sig65Set :
       uout' = <<UserResult("SignUserSignedAction1",
                            SignUserSignedAction1(HarnessKey, UserAction(uin), KindTypes(uin.kind),
                                                  KindPrimaryType(uin.kind), uin.isMainnet,
                                                  signed, fresh))>>
  /\ signed' = Remember(signed, HarnessKey, uout'[1].sig)
  /\ UNCHANGED <<uin, hashVars, exVars, infoVars, callVars, pureVars, wsVars>>

CallSignUserSignedAction2 ==
  /\ uout = <<>>
  /\ \E fresh \in Sig65Set :
       uout' = <<UserResult("SignUserSignedAction2",
                            SignUserSignedAction2(HarnessKey, UserAction(uin), KindTypes(uin.kind),
                                                  KindPrimaryType(uin.kind), uin.isMainnet,
                                                  signed, fresh))>>
  /\ signed' = Remember(signed, HarnessKey, uout'[1].sig)
  /\ UNCHANGED <<uin, hashVars, exVars, infoVars, callVars, pureVars, wsVars>>

CallSignUSDTransferAction ==
  /\ uout = <<>> /\ uin.kind = "UsdSend"
  /\ \E fresh \in Sig65Set :
       uout' = <<UserResult("SignUSDTransferAction",
                            SignUSDTransferAction(HarnessKey, UserAction(uin), uin.isMainnet,
                                                 signed, fresh))>>
  /\ signed' = Remember(signed, HarnessKey, uout'[1].sig)
  /\ UNCHANGED <<uin, hashVars, exVars, infoVars, callVars, pureVars, wsVars>>

CallSignSpotTransferAction ==
  /\ uout = <<>> /\ uin.kind = "SpotSend"
  /\ \E fresh \in Sig65Set :
       uout' = <<UserResult("SignSpotTransferAction",
                            SignSpotTransferAction(HarnessKey, UserAction(uin), uin.isMainnet,
                                                  signed, fresh))>>
  /\ signed' = Remember(signed, HarnessKey, uout'[1].sig)
  /\ UNCHANGED <<uin, hashVars, exVars, infoVars, callVars, pureVars, wsVars>>

CallSignWithdrawFromBridgeAction ==
  /\ uout = <<>> /\ uin.kind = "Withdraw"
  /\ \E fresh \in Sig65Set :
       uout' = <<UserResult("SignWithdrawFromBridgeAction",
                            SignWithdrawFromBridgeAction(HarnessKey, UserAction(uin), uin.isMainnet,
                                                        signed, fresh))>>
  /\ signed' = Remember(signed, HarnessKey, uout'[1].sig)
  /\ UNCHANGED <<uin, hashVars, exVars, infoVars, callVars, pureVars, wsVars>>

CallSignUSDClassTransferAction ==
  /\ uout = <<>> /\ uin.kind = "UsdClassTransfer"
  /\ \E fresh \in Sig65Set :
       uout' = <<UserResult("SignUSDClassTransferAction",
                            SignUSDClassTransferAction(HarnessKey, UserAction(uin), uin.isMainnet,
                                                      signed, fresh))>>
  /\ signed' = Remember(signed, HarnessKey, uout'[1].sig)
  /\ UNCHANGED <<uin, hashVars, exVars, infoVars, callVars, pureVars, wsVars>>

CallSignAgent ==
  /\ uout = <<>> /\ uin.kind = "ApproveAgent"
  /\ \E fresh \in Sig65Set :
       uout' = <<UserResult("SignAgent",
                            SignAgent(HarnessKey, UserAction(uin), uin.isMainnet,
                                     signed, fresh))>>
  /\ signed' = Remember(signed, HarnessKey, uout'[1].sig)
  /\ UNCHANGED <<uin, hashVars, exVars, infoVars, callVars, pureVars, wsVars>>

UserNext ==
  \/ CallUserSignedPayload
  \/ CallSignUserSignedAction1
  \/ CallSignUserSignedAction2
  \/ CallSignUSDTransferAction
  \/ CallSignSpotTransferAction
  \/ CallSignWithdrawFromBridgeAction
  \/ CallSignUSDClassTransferAction
  \/ CallSignAgent

SpecUser == UserInit /\ [][UserNext]_vars

(***************************************************************************)
(* Go maps are references: the maps a call can reach, by name.  "caller"   *)
(* is the map the caller passed; a function's make(map...) adds a map      *)
(* under the name of its local variable.                                   *)
(***************************************************************************)
\* a variant in which signAction is the map that was passed, not a copy
SignUserSignedActionHeap_NoCopy(h, action, isMainnet) ==
  MapSet(h, action, UserSignAction(h[action], isMainnet))

\* SignUserSignedAction: signAction is made, every entry is copied into it,
\* and the two chain entries are assigned to signAction
SignUserSignedActionHeap(h, action, isMainnet) ==
  MapSet(h, "SignUserSignedAction.signAction", UserSignAction(h[action], isMainnet))

\* the loop of SignUSDTransferAction: type is skipped, time is converted
USDTransferSignAction(action) ==
  [k \in DOMAIN action \ {"type"} |-> IF k = "time" THEN ToBigInt(action[k]) ELSE action[k]]

SignUSDTransferActionHeap(h, action, isMainnet) ==
  SignUserSignedActionHeap(
    MapSet(h, "SignUSDTransferAction.signAction", USDTransferSignAction(h[action])),
    "SignUSDTransferAction.signAction", isMainnet)

\* the loop of SignAgent: nonce is converted
AgentSignAction(action) ==
  [k \in DOMAIN action |-> IF k = "nonce" THEN ToBigInt(action[k]) ELSE action[k]]

SignAgentHeap(h, action, isMainnet) ==
  SignUserSignedActionHeap(MapSet(h, "SignAgent.signAction", AgentSignAction(h[action])),
                           "SignAgent.signAction", isMainnet)

FrameInit ==
  /\ uin \in [kind : UserKinds, uintVal : UintVals, extras : SUBSET ExtraKeys,
              dropped : {"", "amount"}, isMainnet : BOOLEAN]
  /\ uout = <<>>
  /\ heap = [name \in {"caller"} |-> UserAction(uin)]
  /\ fin = <<>>
  /\ fout = <<>>
  /\ signed = NoSigned
  /\ HashIdle
  /\ ExchangeIdle
  /\ InfoIdle
  /\ CallsIdle
  /\ WsIdle

CallerSignUserSignedAction ==
  /\ uout = <<>>
  /\ \E fresh \in Sig65Set :
       uout' = <<UserResult("SignUserSignedAction",
                            SignUserSignedAction2(HarnessKey, heap["caller"], KindTypes(uin.kind),
                                                  KindPrimaryType(uin.kind), uin.isMainnet,
                                                  signed, fresh))>>
  /\ heap' = SignUserSignedActionHeap(heap, "caller", uin.isMainnet)
  /\ signed' = Remember(signed, HarnessKey, uout'[1].sig)
  /\ UNCHANGED <<uin, fin, fout, hashVars, exVars, infoVars, callVars, wsVars>>

CallerSignUSDTransferAction ==
  /\ uout = <<>> /\ uin.kind = "UsdSend"
  /\ \E fresh \in Sig65Set :
       uout' = <<UserResult("SignUSDTransferAction",
                            SignUSDTransferAction(HarnessKey, heap["caller"], uin.isMainnet,
                                                 signed, fresh))>>
  /\ heap' = SignUSDTransferActionHeap(heap, "caller", uin.isMainnet)
  /\ signed' = Remember(signed, HarnessKey, uout'[1].sig)
  /\ UNCHANGED <<uin, fin, fout, hashVars, exVars, infoVars, callVars, wsVars>>

CallerSignAgent ==
  /\ uout = <<>> /\ uin.kind = "ApproveAgent"
  /\ \E fresh \in Sig65Set :
       uout' = <<UserResult("SignAgent",
                            SignAgent(HarnessKey, heap["caller"], uin.isMainnet, signed, fresh))>>
  /\ heap' = SignAgentHeap(heap, "caller", uin.isMainnet)
  /\ signed' = Remember(signed, HarnessKey, uout'[1].sig)
  /\ UNCHANGED <<uin, fin, fout, hashVars, exVars, infoVars, callVars, wsVars>>

FrameNext ==
  \/ CallerSignUserSignedAction
  \/ CallerSignUSDTransferAction
  \/ CallerSignAgent

SpecFrame == FrameInit /\ [][FrameNext]_vars

(***************************************************************************)
(* The Exchange (Spec)                                                     *)
(***************************************************************************)
\* how many milliseconds the clock advances at most
MaxTicks == 1

\* crypto.PubkeyToAddress(key).Hex(): the checksummed (mixed-case) address
GetAddressFromPrivateKey(privateKey) ==
  CASE privateKey = "key1"   -> <<"0","x","f","3","9","F","d","6","e","5","1","a","a","d","8","8","F","6","F","4","c","e","6","a","B","8","8","2","7","2","7","9","c","f","f","F","b","9","2","2","6","6">>
    [] privateKey = "agent1" -> <<"0","x","7","0","9","9","7","9","7","0","C","5","1","8","1","2","d","c","3","A","0","1","0","C","7","d","0","1","b","5","0","e","0","d","1","7","d","c","7","9","C","8">>
    [] privateKey = "agent2" -> <<"0","x","3","C","4","4","C","d","D","d","B","6","a","9","0","0","f","a","2","b","5","8","5","d","d","2","9","9","e","0","3","d","1","2","F","A","4","2","9","3","B","C">>
    [] OTHER                 -> <<>>

ExchangeKey == "key1"
AgentKeys == {"agent1", "agent2"}
\* account addresses a caller may configure: none, the key's own address as
\* Hex() spells it and in lower case, another account, the empty string
Accounts ==
  {NilStr, PtrStr(GetAddressFromPrivateKey(ExchangeKey)),
   PtrStr(ToLower(GetAddressFromPrivateKey(ExchangeKey))), PtrStr(OtherAccount), PtrStr(<<>>)}
Destinations == {OtherAccount}
AgentNames == {<<>>, SomeName}

NewExchange(privateKey, isMainnet, vaultAddress, accountAddress) ==
  [privateKey |-> privateKey, vaultAddress |-> vaultAddress,
   accountAddress |-> accountAddress, expiresAfter |-> NilInt, isMainnet |-> isMainnet]

\* the Exchanges that are constructed
Exchanges ==
  {NewExchange(ExchangeKey, isMainnet, vaultAddress, accountAddress) :
     isMainnet \in BOOLEAN, vaultAddress \in {NilStr, PtrStr(VaultAddr)},
     accountAddress \in Accounts}

Init ==
  /\ ex \in Exchanges
  /\ clock = 66051
  /\ last = NoCall
  /\ signed = NoSigned
  /\ HashIdle
  /\ UserIdle
  /\ InfoIdle
  /\ CallsIdle
  /\ PureIdle
  /\ WsIdle

Tick ==
  /\ clock < 66051 + MaxTicks
  /\ clock' = clock + 1
  /\ UNCHANGED <<ex, last, signed, hashVars, userVars, infoVars, callVars, pureVars, wsVars>>

SetExpiresAfter ==
  /\ \E expiresAfter \in Expiries : ex' = [ex EXCEPT !.expiresAfter = expiresAfter]
  /\ UNCHANGED <<clock, last, signed, hashVars, userVars, infoVars, callVars, pureVars, wsVars>>

\* the r, s, v map a signing function returns
SignatureMap(sig) == [r |-> sig.r, s |-> sig.s, v |-> sig.v]

\* the value of action["type"] of a Go map read back as a string
ActionType(action) ==
  IF action.t = "map" /\ K_type \in DOMAIN action.v /\ action.v[K_type].t = "str"
  THEN [ok |-> TRUE, s |-> action.v[K_type].v]
  ELSE [ok |-> FALSE, s |-> <<>>]

\* a variant that sends the configured vault address whatever the action
postAction_VaultForAll(e, action, signature, nonce) ==
  [action |-> action, nonce |-> nonce, signature |-> signature,
   vaultAddress |-> e.vaultAddress, expiresAfter |-> e.expiresAfter]

\* the request body postAction hands to Post
postAction(e, action, signature, nonce) ==
  LET actionType == ActionType(action)
      vaultAddress ==
        IF actionType.ok
           /\ actionType.s # <<"u","s","d","C","l","a","s","s","T","r","a","n","s","f","e","r">>
           /\ actionType.s # <<"s","e","n","d","A","s","s","e","t">>
        THEN e.vaultAddress ELSE NilStr
      payload == [action |-> action, nonce |-> nonce, signature |-> signature,
                  vaultAddress |-> vaultAddress, expiresAfter |-> e.expiresAfter]
      walletAddress == GetAddressFromPrivateKey(e.privateKey)
  IN  IF e.accountAddress.set /\ e.accountAddress.val # walletAddress
      THEN MapSet(payload, "user", e.accountAddress.val)
      ELSE payload

SignError(fn, sig) ==
  [fn |-> fn, status |-> "signError", posted |-> FALSE, payload |-> <<>>, sig |-> sig]
Posted(fn, sig, payload) ==
  [fn |-> fn, status |-> "posted", posted |-> TRUE, payload |-> payload, sig |-> sig]

\* how an entry point ends that signs an exchange-native action: the error
\* of the signing is returned, or the action is posted
PostSigned(fn, e, action, res, nonce) ==
  IF res.sig.status # "ok" THEN SignError(fn, res.sig)
  ELSE Posted(fn, res.sig, postAction(e, action, SignatureMap(res.sig), nonce))

\* how an entry point ends that signs a user-authorized action: the error of
\* the signing is returned, or the payload is posted with the signature
PostUserSigned(fn, sig, payload) ==
  IF sig.status # "ok" THEN SignError(fn, sig)
  ELSE Posted(fn, sig, MapSet(payload, "signature", SignatureMap(sig)))

CancelAll ==
  /\ \E seed \in Seeds, fresh \in Sig65Set :
       last' = PostSigned("CancelAll", ex, CancelAllAction,
                          SignL1ActionWithAccount1(ex.privateKey, CancelAllAction,
                                                   ex.vaultAddress, clock, ex.expiresAfter,
                                                   ex.isMainnet, ex.accountAddress,
                                                   seed, signed, fresh),
                          clock)
  /\ signed' = Remember(signed, ex.privateKey, last'.sig)
  /\ UNCHANGED <<ex, clock, hashVars, userVars, infoVars, callVars, pureVars, wsVars>>

UsdTransfer ==
  /\ \E destination \in Destinations, fresh \in Sig65Set :
       last' = PostUserSigned("UsdTransfer",
                              SignUSDTransferAction(ex.privateKey,
                                                    [destination |-> TStr(ToLower(destination)),
                                                     amount |-> TStr(SomeAmount),
                                                     time |-> TStr(FormatInt(clock))],
                                                    ex.isMainnet, signed, fresh),
                              [type |-> <<"u","s","d","S","e","n","d">>,
                               destination |-> ToLower(destination), amount |-> SomeAmount,
                               time |-> clock])
  /\ signed' = Remember(signed, ex.privateKey, last'.sig)
  /\ UNCHANGED <<ex, clock, hashVars, userVars, infoVars, callVars, pureVars, wsVars>>

SpotTransfer ==
  /\ \E destination \in Destinations, fresh \in Sig65Set :
       last' = PostUserSigned("SpotTransfer",
                              SignSpotTransferAction(ex.privateKey,
                                                     [destination |-> TStr(ToLower(destination)),
                                                      token |-> TStr(SomeToken),
                                                      amount |-> TStr(SomeAmount),
                                                      time |-> TStr(FormatInt(clock))],
                                                     ex.isMainnet, signed, fresh),
                              [type |-> <<"s","p","o","t","S","e","n","d">>,
                               destination |-> ToLower(destination), token |-> SomeToken,
                               amount |-> SomeAmount, time |-> clock])
  /\ signed' = Remember(signed, ex.privateKey, last'.sig)
  /\ UNCHANGED <<ex, clock, hashVars, userVars, infoVars, callVars, pureVars, wsVars>>

WithdrawFromBridge ==
  /\ \E destination \in Destinations, fresh \in Sig65Set :
       last' = PostUserSigned("WithdrawFromBridge",
                              SignWithdrawFromBridgeAction(
                                  ex.privateKey,
                                  [destination |-> TStr(ToLower(destination)),
                                   amount |-> TStr(SomeAmount),
                                   time |-> TStr(FormatInt(clock))],
                                  ex.isMainnet, signed, fresh),
                              [type |-> <<"w","i","t","h","d","r","a","w">>,
                               destination |-> ToLower(destination), amount |-> SomeAmount,
                               time |-> clock])
  /\ signed' = Remember(signed, ex.privateKey, last'.sig)
  /\ UNCHANGED <<ex, clock, hashVars, userVars, infoVars, callVars, pureVars, wsVars>>

\* the payload of ApproveAgent: agentName only when it is not empty
ApproveAgentPayload(agentAddress, name, nonce) ==
  IF name # <<>>
  THEN [type |-> <<"a","p","p","r","o","v","e","A","g","e","n","t">>,
        agentAddress |-> ToLower(agentAddress), nonce |-> nonce, agentName |-> name]
  ELSE [type |-> <<"a","p","p","r","o","v","e","A","g","e","n","t">>,
        agentAddress |-> ToLower(agentAddress), nonce |-> nonce]

ApproveAgent ==
  /\ \E agentPrivateKey \in AgentKeys, name \in AgentNames, fresh \in Sig65Set :
       last' = PostUserSigned("ApproveAgent",
                              SignAgent(ex.privateKey,
                                        [agentAddress |->
                                           TStr(ToLower(GetAddressFromPrivateKey(agentPrivateKey))),
                                         agentName |-> TStr(name),
                                         nonce |-> TStr(FormatInt(clock))],
                                        ex.isMainnet, signed, fresh),
                              ApproveAgentPayload(GetAddressFromPrivateKey(agentPrivateKey),
                                                  name, clock))
  /\ signed' = Remember(signed, ex.privateKey, last'.sig)
  /\ UNCHANGED <<ex, clock, hashVars, userVars, infoVars, callVars, pureVars, wsVars>>

\* actions postAction is handed: of the two account-scoped transfer types,
\* of another type, and one whose type is no string
EnvelopeActions ==
  {VMap(K_type :> VStr(<<"u","s","d","C","l","a","s","s","T","r","a","n","s","f","e","r">>)),
   VMap(K_type :> VStr(<<"s","e","n","d","A","s","s","e","t">>)),
   VMap(K_type :> VStr(<<"o","r","d","e","r">>)),
   VMap(K_type :> VInt(7))}

\* postAction called on an action with a signature made elsewhere
PostAction ==
  /\ \E action \in EnvelopeActions :
       last' = Posted("postAction", NotSigned,
                      postAction(ex, action, SignatureMap(NotSigned), clock))
  /\ UNCHANGED <<ex, clock, signed, hashVars, userVars, infoVars, callVars, pureVars, wsVars>>

Next ==
  \/ Tick
  \/ SetExpiresAfter
  \/ CancelAll
  \/ UsdTransfer
  \/ SpotTransfer
  \/ WithdrawFromBridge
  \/ ApproveAgent

Spec == Init /\ [][Next]_vars

\* postAction alone, on every Exchange, clock and expiry (SpecEnvelope)
EnvelopeNext ==
  \/ Tick
  \/ SetExpiresAfter
  \/ PostAction

SpecEnvelope == Init /\ [][EnvelopeNext]_vars

(***************************************************************************)
(* Calls of SignL1ActionWithAccount that differ in the account address     *)
(* (SpecAccount)                                                           *)
(***************************************************************************)
\* account addresses passed to SignL1ActionWithAccount: none, the address
\* of the signing key, another account
SignerAccounts ==
  {NilStr, PtrStr(GetAddressFromPrivateKey(HarnessKey)), PtrStr(OtherAccount)}

AccountInit ==
  /\ hin \in [act : HarnessActs, nonce : {66051}, vault : {NilStr, PtrStr(VaultAddr)},
              expires : {NilInt}, isMainnet : BOOLEAN]
  /\ hfn = ""
  /\ hout = <<>>
  /\ signed = NoSigned
  /\ UserIdle
  /\ ExchangeIdle
  /\ InfoIdle
  /\ CallsIdle
  /\ PureIdle
  /\ WsIdle

\* a call, with the account address it was given and the order in which
\* msgpack.Marshal walked the action's keys
AccountRun(accountAddress, seed, res) ==
  [fn |-> "SignL1ActionWithAccount1", hashed |-> res.hashed, sig |-> res.sig,
   accountAddress |-> accountAddress, seed |-> seed]

CallSignL1ActionWithAccount1 ==
  /\ MayCall("SignL1ActionWithAccount1")
  /\ \E accountAddress \in SignerAccounts, seed \in Seeds, fresh \in Sig65Set :
       hout' = Append(hout, AccountRun(accountAddress, seed,
                                       SignL1ActionWithAccount1(HarnessKey, ActionOf1(hin.act),
                                                                hin.vault, hin.nonce, hin.expires,
                                                                hin.isMainnet, accountAddress,
                                                                seed, signed, fresh)))
  /\ signed' = Remember(signed, HarnessKey, hout'[Len(hout')].sig)
  /\ hfn' = "SignL1ActionWithAccount1"
  /\ UNCHANGED <<hin, userVars, exVars, infoVars, callVars, pureVars, wsVars>>

AccountNext == CallSignL1ActionWithAccount1

SpecAccount == AccountInit /\ [][AccountNext]_vars

(***************************************************************************)
(* The instrument table of Info (SpecInfo).  A Go map is a function; the   *)
(* entries are written in the order of the loops of NewInfo.               *)
(***************************************************************************)
EmptyInfo == [coinToAsset |-> <<>>, nameToCoin |-> <<>>, assetToSzDecimals |-> <<>>]

\* fmt.Sprintf("%s/%s", baseInfo.Name, quoteInfo.Name)
SpotAlias(baseInfo, quoteInfo) == baseInfo.Name \o <<"/">> \o quoteInfo.Name

\* the pair's own name: coinToAsset and nameToCoin are assigned
AddSpotName(i, spotInfo) ==
  [i EXCEPT !.coinToAsset = MapSet(@, spotInfo.Name, spotInfo.Index + 10000),
            !.nameToCoin = MapSet(@, spotInfo.Name, spotInfo.Name)]

\* the pair's tokens: the size decimals of the base token, and the alias
\* only when that name is not taken yet
AddSpotTokens(i, spotInfo, baseInfo, quoteInfo) ==
  [i EXCEPT !.assetToSzDecimals = MapSet(@, spotInfo.Index + 10000, baseInfo.SzDecimals),
            !.nameToCoin = IF SpotAlias(baseInfo, quoteInfo) \in DOMAIN @ THEN @
                           ELSE MapSet(@, SpotAlias(baseInfo, quoteInfo), spotInfo.Name)]

\* one iteration of the loop over spotMeta.Universe; token numbers count
\* from 0
AddSpot(i, spotInfo, tokens) ==
  IF /\ Len(spotInfo.Tokens) >= 2
     /\ spotInfo.Tokens[1] < Len(tokens)
     /\ spotInfo.Tokens[2] < Len(tokens)
  THEN AddSpotTokens(AddSpotName(i, spotInfo), spotInfo,
                     tokens[spotInfo.Tokens[1] + 1], tokens[spotInfo.Tokens[2] + 1])
  ELSE AddSpotName(i, spotInfo)

RECURSIVE AddSpots(_, _, _)
AddSpots(i, universe, tokens) ==
  IF universe = <<>> THEN i
  ELSE AddSpots(AddSpot(i, Head(universe), tokens), Tail(universe), tokens)

\* setPerpMeta from the position asset on, positions counting from 0
RECURSIVE setPerpMetaFrom(_, _, _, _)
setPerpMetaFrom(i, universe, asset, offset) ==
  IF asset >= Len(universe) THEN i
  ELSE setPerpMetaFrom(
         [i EXCEPT !.coinToAsset = MapSet(@, universe[asset + 1].Name, asset + offset),
                   !.nameToCoin = MapSet(@, universe[asset + 1].Name, universe[asset + 1].Name),
                   !.assetToSzDecimals = MapSet(@, asset + offset,
                                                universe[asset + 1].SzDecimals)],
         universe, asset + 1, offset)

setPerpMeta(i, perpMeta, offset) == setPerpMetaFrom(i, perpMeta.Universe, 0, offset)

\* an element of the list PerpDexs answers: null, or an object with a name
NullDex == [isMap |-> FALSE, name |-> <<>>]
NamedDex(name) == [isMap |-> TRUE, name |-> name]

\* perpDexToOffset after the loop over perpDexsList[1:], the element
\* numbered i of that slice being perpDexsList[i + 2] here
RECURSIVE PerpDexOffsetsFrom(_, _, _)
PerpDexOffsetsFrom(perpDexToOffset, perpDexsList, i) ==
  IF i + 2 > Len(perpDexsList) THEN perpDexToOffset
  ELSE PerpDexOffsetsFrom(IF perpDexsList[i + 2].isMap
                          THEN MapSet(perpDexToOffset, perpDexsList[i + 2].name,
                                      110000 + i * 10000)
                          ELSE perpDexToOffset,
                          perpDexsList, i + 1)

PerpDexOffsets(perpDexsList) == PerpDexOffsetsFrom(<<>> :> 0, perpDexsList, 0)

\* perpDexToOffset[perpDex]: 0 for a name that is no key of the map
OffsetOf(perpDexToOffset, perpDex) ==
  IF perpDex \in DOMAIN perpDexToOffset THEN perpDexToOffset[perpDex] ELSE 0

InfoFailed(how) == [status |-> how, info |-> EmptyInfo]
InfoBuilt(i) == [status |-> "ok", info |-> i]

\* the loop over perpDexs: the metadata of the default venue is the one the
\* caller passed, when one was passed, and otherwise what Meta answers
RECURSIVE AddPerpDexs(_, _, _, _, _)
AddPerpDexs(i, perpDexs, perpDexToOffset, passed, server) ==
  IF perpDexs = <<>> THEN InfoBuilt(i)
  ELSE IF Head(perpDexs) = <<>> /\ passed.set
  THEN AddPerpDexs(setPerpMeta(i, passed.val, OffsetOf(perpDexToOffset, Head(perpDexs))),
                   Tail(perpDexs), perpDexToOffset, passed, server)
  ELSE IF server.metaOf[Head(perpDexs)].err THEN InfoFailed("error")
  ELSE AddPerpDexs(setPerpMeta(i, server.metaOf[Head(perpDexs)].val,
                               OffsetOf(perpDexToOffset, Head(perpDexs))),
                   Tail(perpDexs), perpDexToOffset, passed, server)

\* NewInfo(baseURL, timeout, skipWS = true, meta, spotMeta, perpDexs) against
\* a server; perpDexsList[1:] of an empty list is a run-time panic
NewInfo(passed, spotMeta, perpDexs, server) ==
  IF ~perpDexs.set
  THEN AddPerpDexs(AddSpots(EmptyInfo, spotMeta.Universe, spotMeta.Tokens),
                   <<<<>>>>, <<>> :> 0, passed, server)
  ELSE IF server.perpDexs = <<>> THEN InfoFailed("panic")
  ELSE AddPerpDexs(AddSpots(EmptyInfo, spotMeta.Universe, spotMeta.Tokens),
                   perpDexs.val, PerpDexOffsets(server.perpDexs), passed, server)

\* NameToAsset: the id, or an error with the id 0
NameToAsset(i, name) ==
  IF name \in DOMAIN i.nameToCoin /\ i.nameToCoin[name] \in DOMAIN i.coinToAsset
  THEN [err |-> FALSE, asset |-> i.coinToAsset[i.nameToCoin[name]]]
  ELSE [err |-> TRUE, asset |-> 0]

IsSpotAsset(asset) == asset >= 10000
IsPerpAsset(asset) == asset < 10000 \/ asset >= 110000

\* the metadata the calls are made with
AssetInfo(name, szDecimals) == [Name |-> name, SzDecimals |-> szDecimals]
SpotAssetInfo(name, tokens, index) == [Name |-> name, Tokens |-> tokens, Index |-> index]
NilMeta == [set |-> FALSE, val |-> [Universe |-> <<>>]]
PtrMeta(universe) == [set |-> TRUE, val |-> [Universe |-> universe]]
NilDexs == [set |-> FALSE, val |-> <<>>]
DexList(names) == [set |-> TRUE, val |-> names]
MetaAnswer(universe) == [err |-> FALSE, val |-> [Universe |-> universe]]
MetaError == [err |-> TRUE, val |-> [Universe |-> <<>>]]

N_BTC == <<"B","T","C">>
N_ETH == <<"E","T","H">>
N_PURRUSDC == <<"P","U","R","R","/","U","S","D","C">>
N_At1 == <<"@","1">>
N_At2 == <<"@","2">>
N_Gold == <<"d","e","x","A",":","G","O","L","D">>
N_Oil == <<"d","e","x","B",":","O","I","L">>
N_Gas == <<"d","e","x","B",":","G","A","S">>
N_DexA == <<"d","e","x","A">>
N_DexB == <<"d","e","x","B">>
N_Ghost == <<"g","h","o","s","t">>
N_Unknown == <<"D","O","G","E">>

SpotTokens ==
  <<[Name |-> <<"U","S","D","C">>, SzDecimals |-> 8], [Name |-> <<"P","U","R","R">>, SzDecimals |-> 0],
    [Name |-> <<"H","F","U","N">>, SzDecimals |-> 2]>>
PerpUniverse == <<AssetInfo(N_BTC, 5), AssetInfo(N_ETH, 4)>>

\* spot pairs a server may list: the canonical pair, a pair of other tokens,
\* pairs whose index is not their place in the list, a pair of the tokens of
\* the canonical pair, a pair with one token, a pair with the name of a
\* derivative
SpotPairs ==
  {SpotAssetInfo(N_PURRUSDC, <<1, 0>>, 0),
   SpotAssetInfo(N_At1, <<2, 0>>, 1),
   SpotAssetInfo(N_At1, <<2, 0>>, 7),
   SpotAssetInfo(N_At1, <<2, 0>>, 100000),
   SpotAssetInfo(N_At2, <<1, 0>>, 1),
   SpotAssetInfo(N_At2, <<2>>, 1),
   SpotAssetInfo(N_BTC, <<2, 0>>, 1)}

MaxSpot == 2
SpotUniverses ==
  UNION {[1..n -> SpotPairs] : n \in 0..MaxSpot}

\* what the server answers to perpDexs and to meta: the venues it lists,
\* and for a venue it does not list an error or a universe
Servers ==
  {[perpDexs |-> dexs,
    metaOf |-> (<<>> :> MetaAnswer(PerpUniverse))
               @@ (N_DexA :> MetaAnswer(<<AssetInfo(N_Gold, 2)>>))
               @@ (N_DexB :> MetaAnswer(<<AssetInfo(N_Oil, 1), AssetInfo(N_Gas, 0)>>))
               @@ (N_Ghost :> ghost)] :
     dexs \in {<<>>, <<NullDex, NamedDex(N_DexA), NamedDex(N_DexB)>>},
     ghost \in {MetaError, MetaAnswer(<<AssetInfo(N_ETH, 3)>>)}}

PerpDexArgs ==
  {NilDexs, DexList(<<<<>>>>), DexList(<<<<>>, N_DexA>>), DexList(<<N_DexB>>),
   DexList(<<<<>>, N_DexB, N_DexA>>), DexList(<<<<>>, N_Ghost>>)}

LookupNames ==
  {N_BTC, N_ETH, N_PURRUSDC, N_At1, N_At2, N_Gold, N_Gas, N_Unknown,
   <<"H","F","U","N","/","U","S","D","C">>, <<>>}

NoInfo == InfoFailed("none")

InfoInit ==
  /\ meta \in [passed : {NilMeta, PtrMeta(PerpUniverse)},
               spotMeta : {[Universe |-> u, Tokens |-> SpotTokens] : u \in SpotUniverses},
               perpDexs : PerpDexArgs,
               server : Servers]
  /\ info = NoInfo
  /\ asked = <<>>
  /\ signed = NoSigned
  /\ HashIdle
  /\ UserIdle
  /\ ExchangeIdle
  /\ CallsIdle
  /\ PureIdle
  /\ WsIdle

CallNewInfo ==
  /\ info = NoInfo
  /\ info' = NewInfo(meta.passed, meta.spotMeta, meta.perpDexs, meta.server)
  /\ UNCHANGED <<meta, asked, signed, hashVars, userVars, exVars, callVars, pureVars, wsVars>>

CallNameToAsset ==
  /\ info.status = "ok"
  /\ \E name \in LookupNames :
       asked' = [name |-> name, res |-> NameToAsset(info.info, name)]
  /\ UNCHANGED <<meta, info, signed, hashVars, userVars, exVars, callVars, pureVars, wsVars>>

InfoNext ==
  \/ CallNewInfo
  \/ CallNameToAsset

SpecInfo == InfoInit /\ [][InfoNext]_vars

(***************************************************************************)
(* The table after construction.  A method's effect on the three maps is   *)
(* the list of the assignments m[key] = val it makes, in order; reading    *)
(* m[key] of a Go map assigns nothing, also when the key is absent.        *)
(***************************************************************************)
RECURSIVE Assigned(_, _)
Assigned(i, writes) ==
  IF writes = <<>> THEN i
  ELSE LET w == Head(writes)
       IN  Assigned([i EXCEPT ![w.map] = MapSet(i[w.map], w.key, w.val)], Tail(writes))

\* a variant of NameToAsset that stores the name it could not find
NameToAssetAssigns_StoresMisses(i, name) ==
  IF name \in DOMAIN i.nameToCoin THEN <<>>
  ELSE <<[map |-> "nameToCoin", key |-> name, val |-> name]>>

\* NameToAsset reads nameToCoin[name] and coinToAsset[coin]
NameToAssetAssigns(i, name) == <<>>

\* what slippagePrice takes from the table: the coin, its id, whether the
\* id is a spot id, and the decimals it rounds to.  The price arithmetic
\* that follows uses no field of Info.
slippagePrice(i, name) ==
  IF name \notin DOMAIN i.nameToCoin
  THEN [err |-> "coin not found", asset |-> 0, isSpot |-> FALSE, decimals |-> 0]
  ELSE LET coin == i.nameToCoin[name]
       IN  IF coin \notin DOMAIN i.coinToAsset
           THEN [err |-> "asset not found for coin", asset |-> 0, isSpot |-> FALSE,
                 decimals |-> 0]
           ELSE LET asset == i.coinToAsset[coin]
                    isSpot == asset >= 10000
                    exists == asset \in DOMAIN i.assetToSzDecimals
                IN  [err |-> "", asset |-> asset, isSpot |-> isSpot,
                     decimals |-> IF isSpot
                                  THEN (IF exists THEN 8 - i.assetToSzDecimals[asset] ELSE 8)
                                  ELSE (IF exists THEN 6 - i.assetToSzDecimals[asset] ELSE 6)]

\* slippagePrice reads nameToCoin[name], coinToAsset[coin] and
\* assetToSzDecimals[asset]
slippagePriceAssigns(i, name) == <<>>

\* the methods of Exchange that resolve a coin, each by e.info.NameToAsset
ResolvingMethods ==
  {"BulkOrders", "Cancel", "CancelByCloid", "Modify", "UpdateLeverage",
   "UpdateIsolatedMargin"}

\* the transfer methods build their action from their arguments alone
TransferMethods == {"UsdTransfer", "SpotTransfer", "WithdrawFromBridge"}

ExchangeMethodAssigns(i, fn, name) ==
  IF fn \in ResolvingMethods THEN NameToAssetAssigns(i, name) ELSE <<>>

ExchangeMethodResult(i, fn, name) ==
  IF fn \in ResolvingMethods THEN NameToAsset(i, name) ELSE [err |-> FALSE, asset |-> 0]

\* Info.Subscribe and Info.Unsubscribe hand the call to wsManager, or
\* return an error when there is none
InfoSubscribeAssigns(i) == <<>>

Asked(op, name, res) == [op |-> op, name |-> name, res |-> res]

\* sessions: no spot pair, one pair, and two pairs that share an alias
TableUniverses ==
  {<<>>} \cup {<<p>> : p \in SpotPairs}
         \cup {<<SpotAssetInfo(N_PURRUSDC, <<1, 0>>, 0), SpotAssetInfo(N_At2, <<1, 0>>, 1)>>}

TableInit ==
  /\ meta \in [passed : {NilMeta, PtrMeta(PerpUniverse)},
               spotMeta : {[Universe |-> u, Tokens |-> SpotTokens] : u \in TableUniverses},
               perpDexs : {NilDexs, DexList(<<<<>>, N_DexB, N_DexA>>), DexList(<<<<>>, N_Ghost>>)},
               server : Servers]
  /\ info = NoInfo
  /\ asked = <<>>
  /\ signed = NoSigned
  /\ HashIdle
  /\ UserIdle
  /\ ExchangeIdle
  /\ CallsIdle
  /\ PureIdle
  /\ WsIdle

TableNewInfo ==
  /\ info = NoInfo
  /\ info' = NewInfo(meta.passed, meta.spotMeta, meta.perpDexs, meta.server)
  /\ UNCHANGED <<meta, asked, signed, hashVars, userVars, exVars, callVars, pureVars, wsVars>>

TableNameToAsset ==
  /\ info.status = "ok"
  /\ \E name \in LookupNames :
       /\ asked' = Asked("NameToAsset", name, NameToAsset(info.info, name))
       /\ info' = [info EXCEPT !.info = Assigned(info.info, NameToAssetAssigns(info.info, name))]
  /\ UNCHANGED <<meta, signed, hashVars, userVars, exVars, callVars, pureVars, wsVars>>

TableSlippagePrice ==
  /\ info.status = "ok"
  /\ \E name \in LookupNames :
       /\ asked' = Asked("slippagePrice", name, slippagePrice(info.info, name))
       /\ info' = [info EXCEPT
                     !.info = Assigned(info.info, slippagePriceAssigns(info.info, name))]
  /\ UNCHANGED <<meta, signed, hashVars, userVars, exVars, callVars, pureVars, wsVars>>

TableExchangeMethod ==
  /\ info.status = "ok"
  /\ \E fn \in ResolvingMethods \cup TransferMethods, name \in LookupNames :
       /\ asked' = Asked(fn, name, ExchangeMethodResult(info.info, fn, name))
       /\ info' = [info EXCEPT
                     !.info = Assigned(info.info, ExchangeMethodAssigns(info.info, fn, name))]
  /\ UNCHANGED <<meta, signed, hashVars, userVars, exVars, callVars, pureVars, wsVars>>

TableSubscribe ==
  /\ info.status = "ok"
  /\ \E op \in {"Subscribe", "Unsubscribe"}, skipWS \in BOOLEAN :
       asked' = Asked(op, <<>>, [err |-> skipWS, asset |-> 0])
  /\ info' = [info EXCEPT !.info = Assigned(info.info, InfoSubscribeAssigns(info.info))]
  /\ UNCHANGED <<meta, signed, hashVars, userVars, exVars, callVars, pureVars, wsVars>>

TableNext ==
  \/ TableNewInfo
  \/ TableNameToAsset
  \/ TableSlippagePrice
  \/ TableExchangeMethod
  \/ TableSubscribe

SpecTable == TableInit /\ [][TableNext]_vars

(***************************************************************************)
(* Floats on the wire.  A float64 argument is the decimal number its       *)
(* literal names: a sign, an integer part and the digits after the point.  *)
(***************************************************************************)
Float(neg, int, frac) == [neg |-> neg, int |-> int, frac |-> frac, special |-> ""]
\* the float64 values that are not numbers of this kind
NaN == [neg |-> FALSE, int |-> 0, frac |-> <<>>, special |-> "NaN"]
PosInf == [neg |-> FALSE, int |-> 0, frac |-> <<>>, special |-> "+Inf"]
NegInf == [neg |-> TRUE, int |-> 0, frac |-> <<>>, special |-> "-Inf"]
\* how fmt and strconv spell them
SpecialText(x) ==
  CASE x.special = "NaN" -> <<"N","a","N">>
    [] x.special = "+Inf" -> <<"+","I","n","f">>
    [] OTHER -> <<"-","I","n","f">>

FracDigit(x, k) == IF k <= Len(x.frac) THEN x.frac[k] ELSE 0

\* the number the digits from..to after the point spell
RECURSIVE FracNumber(_, _, _)
FracNumber(x, from, to) ==
  IF from > to THEN 0 ELSE FracNumber(x, from, to - 1) * 10 + FracDigit(x, to)

\* a digit other than 0 beyond the twelfth
RestNonZero(x) == \E k \in 13..Len(x.frac) : x.frac[k] # 0

\* %.8f rounds to the nearest, a tie to the even digit
RoundsUp(x) ==
  \/ FracNumber(x, 9, 12) > 5000
  \/ /\ FracNumber(x, 9, 12) = 5000
     /\ (RestNonZero(x) \/ FracDigit(x, 8) % 2 = 1)

\* the integer part and the eight digits %.8f prints
Rounded8(x) ==
  IF ~RoundsUp(x) THEN [int |-> x.int, frac8 |-> FracNumber(x, 1, 8)]
  ELSE IF FracNumber(x, 1, 8) = 99999999 THEN [int |-> x.int + 1, frac8 |-> 0]
  ELSE [int |-> x.int, frac8 |-> FracNumber(x, 1, 8) + 1]

Sprintf8f(x) ==
  IF x.special # "" THEN SpecialText(x) ELSE
  (IF x.neg THEN <<"-">> ELSE <<>>) \o NatDigits(Rounded8(x).int) \o <<".">> \o
  Rep(<<"0">>, 8 - Len(NatDigits(Rounded8(x).frac8))) \o NatDigits(Rounded8(x).frac8)

\* abs(parsed-x) >= 1e-12 for the parsed value of what %.8f printed
CausesRounding(x) ==
  IF x.special # "" THEN FALSE
  ELSE IF RoundsUp(x) THEN ~(FracNumber(x, 9, 12) = 9999 /\ RestNonZero(x))
  ELSE FracNumber(x, 9, 12) # 0

\* strings.TrimRight(s, c) for a cutset of one character
RECURSIVE TrimRight(_, _)
TrimRight(s, c) ==
  IF s # <<>> /\ s[Len(s)] = c THEN TrimRight(SubSeq(s, 1, Len(s) - 1), c) ELSE s

NoMinusZero(rounded) ==
  IF rounded = <<"-","0",".","0","0","0","0","0","0","0","0">>
  THEN <<"0",".","0","0","0","0","0","0","0","0">> ELSE rounded

NeverEmpty(rounded) == IF rounded = <<>> THEN <<"0">> ELSE rounded

\* a variant that leaves the sign of a zero in place
FloatToWire_MinusZeroKept(x) ==
  IF CausesRounding(x) THEN [err |-> TRUE, s |-> <<>>]
  ELSE [err |-> FALSE, s |-> NeverEmpty(TrimRight(TrimRight(Sprintf8f(x), "0"), "."))]

FloatToWire(x) ==
  IF CausesRounding(x) THEN [err |-> TRUE, s |-> <<>>]
  ELSE [err |-> FALSE,
        s |-> NeverEmpty(TrimRight(TrimRight(NoMinusZero(Sprintf8f(x)), "0"), "."))]

\* strconv.ParseFloat of a string that fmt or strconv wrote
ParseFloat(s) ==
  IF s = SpecialText(NaN) THEN NaN
  ELSE IF s = SpecialText(PosInf) THEN PosInf
  ELSE IF s = SpecialText(NegInf) THEN NegInf
  ELSE LET neg == s # <<>> /\ s[1] = "-"
           body == IF neg THEN Tail(s) ELSE s
           point == IF InSeq(body, ".") THEN IndexOf(body, ".") ELSE Len(body) + 1
       IN  Float(neg, DigitsValue(SubSeq(body, 1, point - 1)),
                 [k \in 1..(Len(body) - point) |-> HexVal(body[point + k])])

\* the digits after the point without the zeros at their end
RECURSIVE TrimZeroDigits(_)
TrimZeroDigits(frac) ==
  IF frac # <<>> /\ frac[Len(frac)] = 0 THEN TrimZeroDigits(SubSeq(frac, 1, Len(frac) - 1))
  ELSE frac

\* strconv.FormatFloat(val, 'f', -1, 64) of a value with few digits: the
\* shortest decimal that names it
FormatFloat(val) ==
  IF val.special # "" THEN SpecialText(val)
  ELSE (IF val.neg THEN <<"-">> ELSE <<>>) \o NatDigits(val.int) \o
       (IF TrimZeroDigits(val.frac) = <<>> THEN <<>>
        ELSE <<".">> \o [k \in 1..Len(TrimZeroDigits(val.frac)) |->
                           Digits[TrimZeroDigits(val.frac)[k] + 1]])

\* the second revision normalises by parsing and formatting again
FloatToWire2(x) ==
  IF CausesRounding(x) THEN [err |-> TRUE, s |-> <<>>]
  ELSE [err |-> FALSE, s |-> FormatFloat(ParseFloat(NoMinusZero(Sprintf8f(x))))]

(***************************************************************************)
(* Order requests and their wire form                                      *)
(***************************************************************************)
\* types.OrderType: two optional pointers
LimitOrder(tif) ==
  [Limit |-> [set |-> TRUE, tif |-> tif],
   Trigger |-> [set |-> FALSE, isMarket |-> FALSE, triggerPx |-> Float(FALSE, 0, <<>>),
                tpsl |-> <<>>]]
TriggerOrderType(isMarket, triggerPx, tpsl) ==
  [Limit |-> NoLimit,
   Trigger |-> [set |-> TRUE, isMarket |-> isMarket, triggerPx |-> triggerPx, tpsl |-> tpsl]]
NeitherOrderType == [LimitOrder(<<>>) EXCEPT !.Limit = NoLimit]

OrderRequest(coin, isBuy, sz, limitPx, orderType, reduceOnly, cloid) ==
  [Coin |-> coin, IsBuy |-> isBuy, Sz |-> sz, LimitPx |-> limitPx, OrderType |-> orderType,
   ReduceOnly |-> reduceOnly, Cloid |-> cloid]

NoWire ==
  [A |-> 0, B |-> FALSE, P |-> <<>>, S |-> <<>>, R |-> FALSE,
   T |-> [Limit |-> NoLimit, Trigger |-> NoTrigger], C |-> NilStr]

OrderTypeToWire(orderType) ==
  IF orderType.Limit.set THEN [err |-> FALSE, wire |-> LimitWire(orderType.Limit.tif)]
  ELSE IF orderType.Trigger.set
  THEN IF FloatToWire(orderType.Trigger.triggerPx).err
       THEN [err |-> TRUE, wire |-> NoWire.T]
       ELSE [err |-> FALSE,
             wire |-> TriggerWire(orderType.Trigger.isMarket,
                                  FloatToWire(orderType.Trigger.triggerPx).s,
                                  orderType.Trigger.tpsl)]
  ELSE [err |-> TRUE, wire |-> NoWire.T]

OrderRequestToOrderWire(order, asset) ==
  IF \/ FloatToWire(order.LimitPx).err
     \/ FloatToWire(order.Sz).err
     \/ OrderTypeToWire(order.OrderType).err
  THEN [err |-> TRUE, wire |-> NoWire]
  ELSE [err |-> FALSE,
        wire |-> [A |-> asset, B |-> order.IsBuy, P |-> FloatToWire(order.LimitPx).s,
                  S |-> FloatToWire(order.Sz).s, R |-> order.ReduceOnly,
                  T |-> OrderTypeToWire(order.OrderType).wire, C |-> order.Cloid]]

\* the second revision of the two conversions calls the second FloatToWire
OrderTypeToWire2(orderType) ==
  IF orderType.Limit.set THEN [err |-> FALSE, wire |-> LimitWire(orderType.Limit.tif)]
  ELSE IF orderType.Trigger.set
  THEN IF FloatToWire2(orderType.Trigger.triggerPx).err
       THEN [err |-> TRUE, wire |-> NoWire.T]
       ELSE [err |-> FALSE,
             wire |-> TriggerWire(orderType.Trigger.isMarket,
                                  FloatToWire2(orderType.Trigger.triggerPx).s,
                                  orderType.Trigger.tpsl)]
  ELSE [err |-> TRUE, wire |-> NoWire.T]

OrderRequestToOrderWire2(order, asset) ==
  IF \/ FloatToWire2(order.LimitPx).err
     \/ FloatToWire2(order.Sz).err
     \/ OrderTypeToWire2(order.OrderType).err
  THEN [err |-> TRUE, wire |-> NoWire]
  ELSE [err |-> FALSE,
        wire |-> [A |-> asset, B |-> order.IsBuy, P |-> FloatToWire2(order.LimitPx).s,
                  S |-> FloatToWire2(order.Sz).s, R |-> order.ReduceOnly,
                  T |-> OrderTypeToWire2(order.OrderType).wire, C |-> order.Cloid]]

(***************************************************************************)
(* Calls of the float conversion on its own and inside an order            *)
(***************************************************************************)
\* digits after the point: none, few, eight, a ninth that matters, digits
\* beyond the twelfth only, a twelfth digit, a tail that rounds up to the
\* next eighth digit within and at the tolerance, a carry into the integer
FracSamples ==
  {<<>>, <<2>>, <<5, 0>>, <<0, 0, 1>>,
   <<1, 2, 3, 4, 5, 6, 7, 8>>,
   <<1, 2, 3, 4, 5, 6, 7, 8, 9>>,
   <<0, 0, 0, 0, 0, 0, 0, 0, 0, 0, 0, 0, 1>>,
   <<0, 0, 0, 0, 0, 0, 0, 0, 0, 0, 0, 1>>,
   <<0, 0, 0, 0, 0, 0, 0, 0, 5>>,
   <<1, 2, 3, 4, 5, 6, 7, 8, 9, 9, 9, 9, 5>>,
   <<1, 2, 3, 4, 5, 6, 7, 8, 9, 9, 9, 9>>,
   <<9, 9, 9, 9, 9, 9, 9, 9, 9, 9, 9, 9, 9>>,
   <<1, 0, 0, 0, 0, 0, 0, 0, 0, 0, 0, 0, 3>>}
IntSamples == {0, 1, 100, 1100}
FloatSamples ==
  {Float(neg, int, frac) : neg \in BOOLEAN, int \in IntSamples, frac \in FracSamples}
  \cup {NaN, PosInf, NegInf}

GoodLimitShape ==
  OrderRequest(<<"B","T","C">>, TRUE, Float(FALSE, 0, <<2>>), Float(FALSE, 1100, <<>>),
               LimitOrder(<<"G","t","c">>), FALSE, NilStr)

\* an order that is fine but for the one field under test
OrderWith(field, x) ==
  CASE field = "LimitPx" -> [GoodLimitShape EXCEPT !.LimitPx = x]
    [] field = "Sz" -> [GoodLimitShape EXCEPT !.Sz = x]
    [] OTHER -> [GoodLimitShape EXCEPT
                   !.OrderType = TriggerOrderType(TRUE, x, <<"t","p">>)]

FloatInit ==
  /\ fin \in FloatSamples
  /\ fout = <<>>
  /\ heap = <<>>
  /\ signed = NoSigned
  /\ HashIdle
  /\ UserIdle
  /\ ExchangeIdle
  /\ InfoIdle
  /\ CallsIdle
  /\ WsIdle

FloatResult(fn, field, res) == <<[fn |-> fn, field |-> field, res |-> res]>>
OrderFields == {"LimitPx", "Sz", "TriggerPx"}

CallFloatToWire1 ==
  /\ fout = <<>>
  /\ fout' = FloatResult("FloatToWire1", "", FloatToWire(fin))
  /\ UNCHANGED <<fin, heap, signed, hashVars, userVars, exVars, infoVars, callVars, wsVars>>

CallFloatToWire2 ==
  /\ fout = <<>>
  /\ fout' = FloatResult("FloatToWire2", "", FloatToWire2(fin))
  /\ UNCHANGED <<fin, heap, signed, hashVars, userVars, exVars, infoVars, callVars, wsVars>>

CallOrderRequestToOrderWire1 ==
  /\ fout = <<>>
  /\ \E field \in OrderFields :
       fout' = FloatResult("OrderRequestToOrderWire1", field,
                           OrderRequestToOrderWire(OrderWith(field, fin), 4))
  /\ UNCHANGED <<fin, heap, signed, hashVars, userVars, exVars, infoVars, callVars, wsVars>>

CallOrderRequestToOrderWire2 ==
  /\ fout = <<>>
  /\ \E field \in OrderFields :
       fout' = FloatResult("OrderRequestToOrderWire2", field,
                           OrderRequestToOrderWire2(OrderWith(field, fin), 4))
  /\ UNCHANGED <<fin, heap, signed, hashVars, userVars, exVars, infoVars, callVars, wsVars>>

FloatNext ==
  \/ CallFloatToWire1
  \/ CallFloatToWire2
  \/ CallOrderRequestToOrderWire1
  \/ CallOrderRequestToOrderWire2

SpecFloat == FloatInit /\ [][FloatNext]_vars

(***************************************************************************)
(* The action maps the methods of Exchange build                           *)
(***************************************************************************)
K_cancels == <<"c","a","n","c","e","l","s">>
K_asset == <<"a","s","s","e","t">>
K_oid == <<"o","i","d">>

CancelAction(asset, oid) ==
  VMap((K_type :> VStr(<<"c","a","n","c","e","l">>)) @@
       (K_cancels :> VArr(<<VMap((<<"a">> :> VInt(asset)) @@ (K_oid :> VInt(oid)))>>)))

CancelByCloidAction(asset, cloid) ==
  VMap((K_type :> VStr(<<"c","a","n","c","e","l","B","y","C","l","o","i","d">>)) @@
       (K_cancels :> VArr(<<VMap((K_asset :> VInt(asset)) @@
                                 (<<"c","l","o","i","d">> :> VStr(cloid)))>>)))

ModifyOrderMap(orderWire) ==
  VMap(IF orderWire.C.set
       THEN (<<"a">> :> VInt(orderWire.A)) @@ (<<"b">> :> VBool(orderWire.B)) @@
            (<<"p">> :> VStr(orderWire.P)) @@ (<<"s">> :> VStr(orderWire.S)) @@
            (<<"r">> :> VBool(orderWire.R)) @@
            (<<"t">> :> ConvertOrderTypeWireToMap(orderWire.T)) @@
            (<<"c">> :> VStr(orderWire.C.val))
       ELSE (<<"a">> :> VInt(orderWire.A)) @@ (<<"b">> :> VBool(orderWire.B)) @@
            (<<"p">> :> VStr(orderWire.P)) @@ (<<"s">> :> VStr(orderWire.S)) @@
            (<<"r">> :> VBool(orderWire.R)) @@
            (<<"t">> :> ConvertOrderTypeWireToMap(orderWire.T)))

ModifyAction(oid, orderWire) ==
  VMap((K_type :> VStr(<<"m","o","d","i","f","y">>)) @@
       (<<"m","o","d","i","f","i","e","s">> :>
          VArr(<<VMap((K_oid :> VInt(oid)) @@
                      (<<"o","r","d","e","r">> :> ModifyOrderMap(orderWire)))>>)))

UpdateLeverageAction(asset, isCross, leverage) ==
  VMap((K_type :> VStr(<<"u","p","d","a","t","e","L","e","v","e","r","a","g","e">>)) @@
       (K_asset :> VInt(asset)) @@
       (<<"i","s","C","r","o","s","s">> :> VBool(isCross)) @@
       (<<"l","e","v","e","r","a","g","e">> :> VInt(leverage)))

UpdateIsolatedMarginAction(asset, isBuy, ntli) ==
  VMap((K_type :> VStr(<<"u","p","d","a","t","e","I","s","o","l","a","t","e","d",
                         "M","a","r","g","i","n">>)) @@
       (K_asset :> VInt(asset)) @@
       (<<"i","s","B","u","y">> :> VBool(isBuy)) @@
       (<<"n","t","l","i">> :> VInt64(ntli)))

(***************************************************************************)
(* A call of an exchange-native method of Exchange, step by step: the      *)
(* names it resolves, the orders it encodes, the signature, the request.   *)
(***************************************************************************)
NoPreimage == [nonceSec |-> <<>>, vaultSec |-> <<>>, expSec |-> <<>>]

IdleCall ==
  [fn |-> "", pc |-> "idle", orders |-> <<>>, builder |-> NoBuilder, arg |-> 0,
   assets |-> <<>>, wires |-> <<>>, timestamp |-> 0, action |-> VNil,
   hashed |-> NoPreimage, sig |-> NotSigned, signature |-> SignatureMap(NotSigned),
   payload |-> <<>>, posts |-> 0, result |-> ""]

\* the call at its first statement
NewCall(fn, orders, builder, arg) ==
  [IdleCall EXCEPT !.fn = fn, !.orders = orders, !.builder = builder, !.arg = arg,
                   !.pc = IF fn = "CancelAll" THEN "sign" ELSE "resolve"]

\* the methods that turn an order request into its wire form
Encodes(fn) == fn \in {"BulkOrders", "Modify"}

\* return nil, err
ReturnError(call, result) == [call EXCEPT !.pc = "done", !.result = result, !.sig = NotSigned]

\* a variant that drops the error of NameToAsset and goes on with the id 0
ResolveOrder_ErrorDropped(call, table) ==
  [call EXCEPT
     !.assets = Append(@, NameToAsset(table, call.orders[Len(call.assets) + 1].Coin).asset),
     !.pc = IF Encodes(call.fn) THEN "encode" ELSE "sign"]

\* e.info.NameToAsset of the next name
ResolveOrder(call, table) ==
  IF NameToAsset(table, call.orders[Len(call.assets) + 1].Coin).err
  THEN ReturnError(call, "resolveError")
  ELSE [call EXCEPT
          !.assets = Append(@, NameToAsset(table, call.orders[Len(call.assets) + 1].Coin).asset),
          !.pc = IF Encodes(call.fn) THEN "encode" ELSE "sign"]

\* utils.OrderRequestToOrderWire of the order whose name was resolved last
EncodeOrder(call) ==
  IF OrderRequestToOrderWire(call.orders[Len(call.assets)], call.assets[Len(call.assets)]).err
  THEN ReturnError(call, "encodeError")
  ELSE [call EXCEPT
          !.wires = Append(@, OrderRequestToOrderWire(call.orders[Len(call.assets)],
                                                      call.assets[Len(call.assets)]).wire),
          !.pc = IF Len(call.assets) < Len(call.orders) THEN "resolve" ELSE "sign"]

\* builder.B = strings.ToLower(builder.B)
LowerBuilder(builder) == IF builder.set THEN [builder EXCEPT !.B = ToLower(@)] ELSE builder

\* the action the method builds once names and orders are in hand
ActionOfCall(call) ==
  CASE call.fn = "BulkOrders" ->
         OrderWiresToOrderAction1(call.wires, LowerBuilder(call.builder))
    [] call.fn = "Cancel" -> CancelAction(call.assets[1], call.arg)
    [] call.fn = "CancelByCloid" -> CancelByCloidAction(call.assets[1], call.orders[1].Cloid.val)
    [] call.fn = "Modify" -> ModifyAction(call.arg, call.wires[1])
    [] call.fn = "UpdateLeverage" -> UpdateLeverageAction(call.assets[1], call.orders[1].IsBuy, call.arg)
    [] call.fn = "UpdateIsolatedMargin" ->
         UpdateIsolatedMarginAction(call.assets[1], call.orders[1].IsBuy, call.arg)
    [] OTHER -> CancelAllAction

\* what the call keeps of the result of SignL1ActionWithAccount
AfterSigning(call, action, timestamp, res) ==
  IF res.sig.status # "ok"
  THEN ReturnError([call EXCEPT !.timestamp = timestamp, !.action = action], "signError")
  ELSE [call EXCEPT !.timestamp = timestamp, !.action = action,
                    !.hashed = [nonceSec |-> res.hashed.nonceSec,
                                vaultSec |-> res.hashed.vaultSec,
                                expSec |-> res.hashed.expSec],
                    !.sig = res.sig, !.signature = SignatureMap(res.sig), !.pc = "post"]

\* timestamp := utils.GetTimestampMS() and utils.SignL1ActionWithAccount with
\* the fields of the Exchange as they are now
SignCall(call, e, now, seed, memo, fresh) ==
  AfterSigning(call, ActionOfCall(call), now,
               SignL1ActionWithAccount1(e.privateKey, ActionOfCall(call), e.vaultAddress, now,
                                        e.expiresAfter, e.isMainnet, e.accountAddress,
                                        seed, memo, fresh))

\* e.postAction with the fields of the Exchange as they are now, and what
\* Post answers
PostCall(call, e, response) ==
  [call EXCEPT !.payload = postAction(e, call.action, call.signature, call.timestamp),
               !.posts = @ + 1, !.pc = "done", !.sig = NotSigned,
               !.result = IF response = "ok" THEN "posted" ELSE "postError"]

\* every statement before the timestamp is taken
RECURSIVE Prepare(_, _)
Prepare(call, table) ==
  IF call.pc = "resolve" THEN Prepare(ResolveOrder(call, table), table)
  ELSE IF call.pc = "encode" THEN Prepare(EncodeOrder(call), table)
  ELSE call

(***************************************************************************)
(* Inputs of the calls                                                     *)
(***************************************************************************)
Gtc == <<"G","t","c">>
TheCloid == <<"0", "x">> \o Rep(<<"0">>, 31) \o <<"7">>

GoodLimit ==
  OrderRequest(N_BTC, TRUE, Float(FALSE, 0, <<2>>), Float(FALSE, 1100, <<>>),
               LimitOrder(Gtc), FALSE, NilStr)
GoodTrigger ==
  OrderRequest(N_PURRUSDC, FALSE, Float(FALSE, 0, <<0, 0, 1>>), Float(FALSE, 1500, <<>>),
               TriggerOrderType(TRUE, Float(FALSE, 1500, <<>>), <<"s","l">>), TRUE,
               PtrStr(TheCloid))
UnknownCoin == [GoodLimit EXCEPT !.Coin = N_Unknown]
TooFine == [GoodLimit EXCEPT !.LimitPx = Float(FALSE, 0, <<1, 2, 3, 4, 5, 6, 7, 8, 9>>)]
NoOrderType == [GoodTrigger EXCEPT !.OrderType = NeitherOrderType]
TooFineTrigger ==
  [GoodTrigger EXCEPT !.OrderType =
     TriggerOrderType(FALSE, Float(FALSE, 1, <<0, 0, 0, 0, 0, 0, 0, 0, 0, 0, 0, 1>>), <<"t","p">>)]

OrderPool == {GoodLimit, GoodTrigger, UnknownCoin, TooFine}
OrderBatches == UNION {[1..n -> OrderPool] : n \in 1..MaxOrders}
ModifyPool == OrderPool \cup {NoOrderType, TooFineTrigger}
Builders == {NoBuilder, [TheBuilder EXCEPT !.B = <<"0", "x">> \o Rep(<<"C", "D">>, 20)]}
Coins == {N_BTC, N_PURRUSDC, N_Unknown}
\* a request that carries only a name
Named(coin) == [GoodLimit EXCEPT !.Coin = coin]

\* the metadata the Info of the Exchange is built from
PipelineMeta ==
  [passed |-> PtrMeta(PerpUniverse),
   spotMeta |-> [Universe |-> <<SpotAssetInfo(N_PURRUSDC, <<1, 0>>, 0)>>, Tokens |-> SpotTokens],
   perpDexs |-> NilDexs,
   server |-> CHOOSE server \in Servers :
                server.perpDexs # <<>> /\ server.metaOf[N_Ghost] = MetaError]

BadVault == <<"0", "x", "z", "z">>
PostResponses == {"ok", "error"}

(***************************************************************************)
(* The steps of a call as actions; g is the goroutine that runs the call   *)
(***************************************************************************)
Goroutines == 1..Len(calls)

Begin(g, call) ==
  /\ calls[g].pc = "idle"
  /\ calls' = [calls EXCEPT ![g] = call]
  /\ UNCHANGED <<signed, hashVars, userVars, exVars, infoVars, pureVars, wsVars>>

BeginBulkOrders ==
  \E g \in Goroutines, orderRequests \in OrderBatches, builder \in Builders :
     Begin(g, NewCall("BulkOrders", orderRequests, builder, 0))

BeginCancel ==
  \E g \in Goroutines, coin \in Coins :
     Begin(g, NewCall("Cancel", <<Named(coin)>>, NoBuilder, 123))

BeginModify ==
  \E g \in Goroutines, orderRequest \in ModifyPool :
     Begin(g, NewCall("Modify", <<orderRequest>>, NoBuilder, 123))

BeginUpdateLeverage ==
  \E g \in Goroutines, coin \in Coins, isCross \in BOOLEAN :
     Begin(g, NewCall("UpdateLeverage", <<[Named(coin) EXCEPT !.IsBuy = isCross]>>, NoBuilder, 5))

ResolveStep ==
  \E g \in Goroutines :
     /\ calls[g].pc = "resolve"
     /\ calls' = [calls EXCEPT ![g] = ResolveOrder(calls[g], info.info)]
     /\ UNCHANGED <<signed, hashVars, userVars, exVars, infoVars, pureVars, wsVars>>

EncodeStep ==
  \E g \in Goroutines :
     /\ calls[g].pc = "encode"
     /\ calls' = [calls EXCEPT ![g] = EncodeOrder(calls[g])]
     /\ UNCHANGED <<signed, hashVars, userVars, exVars, infoVars, pureVars, wsVars>>

SignStep ==
  \E g \in Goroutines, seed \in Seeds, fresh \in Sig65Set :
     /\ calls[g].pc = "sign"
     /\ calls' = [calls EXCEPT ![g] = SignCall(calls[g], ex, clock, seed, signed, fresh)]
     /\ signed' = Remember(signed, ex.privateKey, calls'[g].sig)
     /\ UNCHANGED <<hashVars, userVars, exVars, infoVars, pureVars, wsVars>>

PostStep ==
  \E g \in Goroutines, response \in PostResponses :
     /\ calls[g].pc = "post"
     /\ calls' = [calls EXCEPT ![g] = PostCall(calls[g], ex, response)]
     /\ UNCHANGED <<signed, hashVars, userVars, exVars, infoVars, pureVars, wsVars>>

OrdersInit ==
  /\ ex \in {NewExchange(ExchangeKey, TRUE, vaultAddress, NilStr) :
               vaultAddress \in {NilStr, PtrStr(VaultAddr), PtrStr(BadVault)}}
  /\ clock = 66051
  /\ last = NoCall
  /\ meta = PipelineMeta
  /\ info = NewInfo(meta.passed, meta.spotMeta, meta.perpDexs, meta.server)
  /\ asked = <<>>
  /\ calls = <<IdleCall>>
  /\ signed = NoSigned
  /\ HashIdle
  /\ UserIdle
  /\ PureIdle
  /\ WsIdle

OrdersNext ==
  \/ BeginBulkOrders
  \/ BeginCancel
  \/ BeginModify
  \/ BeginUpdateLeverage
  \/ ResolveStep
  \/ EncodeStep
  \/ SignStep
  \/ PostStep

SpecOrders == OrdersInit /\ [][OrdersNext]_vars

(***************************************************************************)
(* Goroutines that share one Exchange.  A call reads the clock and the     *)
(* fields of the Exchange when it signs and reads the fields again in      *)
(* postAction; other goroutines run between the two.                       *)
(***************************************************************************)
\* how many goroutines call methods of the one Exchange
NumGoroutines == 2

\* the call a goroutine makes of a method, with arguments that resolve and
\* encode
CallOf(fn) ==
  CASE fn = "BulkOrders" -> NewCall(fn, <<GoodLimit>>, NoBuilder, 0)
    [] fn = "Cancel" -> NewCall(fn, <<Named(N_BTC)>>, NoBuilder, 123)
    [] fn = "CancelByCloid" ->
         NewCall(fn, <<[Named(N_BTC) EXCEPT !.Cloid = PtrStr(TheCloid)]>>, NoBuilder, 0)
    [] fn = "Modify" -> NewCall(fn, <<GoodTrigger>>, NoBuilder, 123)
    [] fn = "UpdateLeverage" -> NewCall(fn, <<Named(N_ETH)>>, NoBuilder, 5)
    [] fn = "UpdateIsolatedMargin" -> NewCall(fn, <<Named(N_ETH)>>, NoBuilder, 1000000)
    [] OTHER -> NewCall("CancelAll", <<>>, NoBuilder, 0)

NativeMethods ==
  {"BulkOrders", "Cancel", "CancelByCloid", "Modify", "CancelAll", "UpdateLeverage",
   "UpdateIsolatedMargin"}
\* the first goroutine calls any method, the others cancel
MethodsOf(g) == IF g = 1 THEN NativeMethods ELSE {"Cancel", "CancelAll"}

\* what crypto.Sign answers in these runs
RaceSig65 == CHOOSE sig \in Sig65Set : sig.v = 0

\* a goroutine runs a method up to and including the signing
CallAndSign ==
  \E g \in Goroutines :
     /\ calls[g].pc = "idle"
     /\ \E fn \in MethodsOf(g) :
          calls' = [calls EXCEPT ![g] = SignCall(Prepare(CallOf(fn), info.info), ex, clock,
                                                 1, signed, RaceSig65)]
     /\ signed' = Remember(signed, ex.privateKey, calls'[g].sig)
     /\ UNCHANGED <<hashVars, userVars, exVars, infoVars, pureVars, wsVars>>

\* the goroutine goes on to postAction
PostSignedCall ==
  \E g \in Goroutines :
     /\ calls[g].pc = "post"
     /\ calls' = [calls EXCEPT ![g] = PostCall(calls[g], ex, "ok")]
     /\ UNCHANGED <<signed, hashVars, userVars, exVars, infoVars, pureVars, wsVars>>

\* the wall clock is set back (time.Now().UnixMilli() is not monotonic)
ClockStepsBack ==
  /\ clock > 66051
  /\ clock' = clock - 1
  /\ UNCHANGED <<ex, last, signed, hashVars, userVars, infoVars, callVars, pureVars, wsVars>>

RaceInit ==
  /\ ex = NewExchange(ExchangeKey, TRUE, PtrStr(VaultAddr), NilStr)
  /\ clock = 66051
  /\ last = NoCall
  /\ meta = PipelineMeta
  /\ info = NewInfo(meta.passed, meta.spotMeta, meta.perpDexs, meta.server)
  /\ asked = <<>>
  /\ calls = [g \in 1..NumGoroutines |-> IdleCall]
  /\ signed = NoSigned
  /\ HashIdle
  /\ UserIdle
  /\ PureIdle
  /\ WsIdle

RaceNext ==
  \/ CallAndSign
  \/ PostSignedCall
  \/ SetExpiresAfter
  \/ Tick
  \/ ClockStepsBack

SpecRace == RaceInit /\ [][RaceNext]_vars

(***************************************************************************)
(* WebsocketManager.  ws holds the fields of the manager, conns the        *)
(* connections that were dialled (w.conn is an index into conns, 0 for     *)
(* nil), pumps the goroutines Start launched, each with its position and   *)
(* its locals.  A panic ends the process: no step follows it.              *)
(***************************************************************************)
MaxReconnects == 10
MaxConns == 2
MaxStarts == 2
MaxCalls == 1

\* the JSON texts that are the keys of w.subscriptions
SubKeys == {"allMids", "trades"}
Callbacks == {"first", "second"}

nonWsVars == <<signed, hashVars, userVars, exVars, infoVars, callVars, pureVars>>

\* the call that holds w.mutex for writing, and what the latest Subscribe or
\* Unsubscribe returned; stopped: a Stop of the running manager has returned
\* and no Start has succeeded since
NoApi == [fn |-> "", pc |-> "", subs |-> <<>>, callback |-> "", before |-> <<>>]
Ret(fn, err, before) == [fn |-> fn, err |-> err, before |-> before]
NoRet == Ret("", "", <<>>)

NewWebsocketManager ==
  [conn |-> 0, subscriptions |-> <<>>, isRunning |-> FALSE, currentRetries |-> 0,
   done |-> "open", panic |-> "", api |-> NoApi, ret |-> NoRet,
   starts |-> 0, calls |-> [Subscribe |-> 0, Unsubscribe |-> 0], stopped |-> FALSE]

MutexFree(w) == w.api.fn = ""

\* a connection: open until Close, and the subscriptions the server holds
\* for it (subscribe messages written less unsubscribe messages written)
NewConn == [open |-> TRUE, sent |-> {}]
Close(cs, c) == [cs EXCEPT ![c].open = FALSE]

\* a write fails on a closed connection and may fail on an open one
Written(cs, c, ok) == cs[c].open /\ ok

Panic(w, what) == [w EXCEPT !.panic = what]

\* connect: Dial, and on success w.conn = conn and w.currentRetries = 0
connect(w, cs, ok) ==
  IF ~ok THEN [err |-> "failed to dial WebSocket", w |-> w, cs |-> cs]
  ELSE [err |-> "",
        w |-> [w EXCEPT !.conn = Len(cs) + 1, !.currentRetries = 0],
        cs |-> Append(cs, NewConn)]

Pump(kind) ==
  [kind |-> kind, pc |-> "select", conn |-> 0, subs |-> {}, dialed |-> 0, absent |-> {},
   why |-> ""]

At(p, kind, pc) ==
  /\ ws.panic = ""
  /\ p \in DOMAIN pumps
  /\ pumps[p].kind = kind
  /\ pumps[p].pc = pc

Goto(p, pc) == pumps' = [pumps EXCEPT ![p].pc = pc]
\* leaving the loop: the locals are dead, the reason is kept
Exit(p, pc, why) == pumps' = [pumps EXCEPT ![p] = [Pump(@.kind) EXCEPT !.pc = pc, !.why = why]]

WsInit ==
  /\ ws = NewWebsocketManager
  /\ pumps = <<>>
  /\ conns = <<>>
  /\ signed = NoSigned
  /\ HashIdle
  /\ UserIdle
  /\ ExchangeIdle
  /\ InfoIdle
  /\ CallsIdle
  /\ PureIdle

\* Start holds the mutex from its first statement to its return
Start ==
  /\ ws.panic = "" /\ MutexFree(ws)
  /\ ws.starts < MaxStarts
  /\ \E ok \in BOOLEAN :
       LET c == connect(ws, conns, ok)
       IN  IF ws.isRunning
           THEN UNCHANGED <<ws, pumps, conns>>
           ELSE IF c.err # ""
           THEN UNCHANGED <<ws, pumps, conns>>
           ELSE /\ Len(conns) < MaxConns
                /\ ws' = [c.w EXCEPT !.isRunning = TRUE, !.starts = @ + 1, !.stopped = FALSE]
                /\ conns' = c.cs
                /\ pumps' = pumps \o <<Pump("readPump"), Pump("pingPump")>>
  /\ UNCHANGED nonWsVars

\* Stop up to close(w.done)
StopBegin ==
  /\ ws.panic = "" /\ MutexFree(ws)
  /\ ws' = IF ~ws.isRunning
           THEN ws
           ELSE IF ws.done = "closed"
           THEN Panic([ws EXCEPT !.isRunning = FALSE], "close of closed channel")
           ELSE [ws EXCEPT !.isRunning = FALSE, !.done = "closed",
                           !.api = [NoApi EXCEPT !.fn = "Stop", !.pc = "close"]]
  /\ UNCHANGED <<pumps, conns, nonWsVars>>

\* if w.conn != nil: the close frame and w.conn.Close()
StopClose ==
  /\ ws.panic = "" /\ ws.api.fn = "Stop" /\ ws.api.pc = "close"
  /\ IF ws.conn = 0
     THEN /\ ws' = [ws EXCEPT !.api = NoApi, !.stopped = TRUE]
          /\ UNCHANGED conns
     ELSE /\ conns' = Close(conns, ws.conn)
          /\ ws' = [ws EXCEPT !.api.pc = "nil"]
  /\ UNCHANGED <<pumps, nonWsVars>>

\* w.conn = nil, and the return
StopEnd ==
  /\ ws.panic = "" /\ ws.api.fn = "Stop" /\ ws.api.pc = "nil"
  /\ ws' = [ws EXCEPT !.conn = 0, !.api = NoApi, !.stopped = TRUE]
  /\ UNCHANGED <<pumps, conns, nonWsVars>>

(***************************************************************************)
(* readPump                                                                *)
(***************************************************************************)
\* select: the done case when the channel is closed, else the default case
ReadSelectOf(p) ==
  /\ At(p, "readPump", "select") \/ At(p, "readPump", "reconnected")
  /\ IF ws.done = "closed" THEN Exit(p, "defer", "done") ELSE Goto(p, "read")
  /\ UNCHANGED <<ws, conns, nonWsVars>>

\* w.conn.ReadMessage(): the receiver is the value of w.conn at the call
ReadCallOf(p) ==
  /\ At(p, "readPump", "read")
  /\ IF ws.conn = 0
     THEN ws' = Panic(ws, "ReadMessage on nil connection") /\ UNCHANGED pumps
     ELSE pumps' = [pumps EXCEPT ![p].pc = "blocked", ![p].conn = ws.conn] /\ UNCHANGED ws
  /\ UNCHANGED <<conns, nonWsVars>>

\* a message arrives and handleMessage runs
ReadMessageOf(p) ==
  /\ At(p, "readPump", "blocked")
  /\ conns[pumps[p].conn].open
  /\ Goto(p, "select")
  /\ UNCHANGED <<ws, conns, nonWsVars>>

\* the read on a connection that was closed returns an error
ReadClosedOf(p) ==
  /\ At(p, "readPump", "blocked")
  /\ ~conns[pumps[p].conn].open
  /\ Goto(p, "check")
  /\ UNCHANGED <<ws, conns, nonWsVars>>

\* the read fails: the network, the peer, or the read deadline
ReadFailsOf(p) ==
  /\ At(p, "readPump", "blocked")
  /\ conns[pumps[p].conn].open
  /\ Goto(p, "check")
  /\ UNCHANGED <<ws, conns, nonWsVars>>

\* isRunning is read under RLock
ReadCheckOf(p) ==
  /\ At(p, "readPump", "check")
  /\ MutexFree(ws)
  /\ IF ws.isRunning THEN Goto(p, "reconnect") ELSE Exit(p, "defer", "stopped")
  /\ UNCHANGED <<ws, conns, nonWsVars>>

\* reconnect up to the sleep
ReconnectOf(p) ==
  /\ At(p, "readPump", "reconnect")
  /\ IF ws.currentRetries >= MaxReconnects
     THEN /\ Exit(p, "defer", "maximum reconnection attempts reached")
          /\ UNCHANGED ws
     ELSE /\ ws' = [ws EXCEPT !.currentRetries = @ + 1]
          /\ pumps' = [pumps EXCEPT ![p].pc = "dial",
                                    ![p].absent = SubKeys \ DOMAIN ws.subscriptions]
  /\ UNCHANGED <<conns, nonWsVars>>

\* connect as reconnect calls it: an error ends reconnect and the pump
ReconnectDialOf(p) ==
  /\ At(p, "readPump", "dial")
  /\ \E ok \in BOOLEAN :
       LET c == connect(ws, conns, ok)
       IN  IF c.err # ""
           THEN Exit(p, "defer", "reconnection failed") /\ UNCHANGED <<ws, conns>>
           ELSE /\ Len(conns) < MaxConns
                /\ ws' = c.w
                /\ conns' = c.cs
                /\ pumps' = [pumps EXCEPT ![p].pc = "deadline", ![p].dialed = c.w.conn]
  /\ UNCHANGED nonWsVars

\* w.conn.SetReadDeadline and w.conn.SetPongHandler
ReconnectDeadlineOf(p) ==
  /\ At(p, "readPump", "deadline")
  /\ IF ws.conn = 0
     THEN ws' = Panic(ws, "SetReadDeadline on nil connection") /\ UNCHANGED pumps
     ELSE Goto(p, "snapshot") /\ UNCHANGED ws
  /\ UNCHANGED <<conns, nonWsVars>>

\* the keys of w.subscriptions are copied under RLock
ReconnectSnapshotOf(p) ==
  /\ At(p, "readPump", "snapshot")
  /\ MutexFree(ws)
  /\ pumps' = [pumps EXCEPT ![p].pc = "resub", ![p].subs = DOMAIN ws.subscriptions]
  /\ UNCHANGED <<ws, conns, nonWsVars>>

\* w.sendSubscription(subscription), its error dropped
ReconnectResubOf(p) ==
  /\ At(p, "readPump", "resub")
  /\ \E k \in pumps[p].subs, ok \in BOOLEAN :
       IF ws.conn = 0
       THEN ws' = Panic(ws, "WriteJSON on nil connection") /\ UNCHANGED <<pumps, conns>>
       ELSE /\ conns' = IF Written(conns, ws.conn, ok)
                        THEN [conns EXCEPT ![ws.conn].sent = @ \cup {k}]
                        ELSE conns
            /\ pumps' = [pumps EXCEPT ![p].subs = @ \ {k}]
            /\ UNCHANGED ws
  /\ UNCHANGED nonWsVars

\* reconnect returns nil
ReconnectReturnOf(p) ==
  /\ At(p, "readPump", "resub")
  /\ pumps[p].subs = {}
  /\ Goto(p, "reconnected")
  /\ UNCHANGED <<ws, conns, nonWsVars>>

\* the deferred function: if w.conn != nil
ReadDeferOf(p) ==
  /\ At(p, "readPump", "defer")
  /\ IF ws.conn # 0 THEN Goto(p, "close") ELSE Goto(p, "done")
  /\ UNCHANGED <<ws, conns, nonWsVars>>

\* the deferred function: w.conn.Close()
ReadCloseOf(p) ==
  /\ At(p, "readPump", "close")
  /\ IF ws.conn = 0
     THEN ws' = Panic(ws, "Close on nil connection") /\ UNCHANGED <<pumps, conns>>
     ELSE conns' = Close(conns, ws.conn) /\ Goto(p, "done") /\ UNCHANGED ws
  /\ UNCHANGED nonWsVars

(***************************************************************************)
(* pingPump                                                                *)
(***************************************************************************)
\* the ticker case: conn is read under RLock, the ping is written to it
PingTickOf(p) ==
  /\ At(p, "pingPump", "select")
  /\ MutexFree(ws)
  /\ \E ok \in BOOLEAN :
       IF ws.conn = 0 \/ Written(conns, ws.conn, ok)
       THEN UNCHANGED pumps
       ELSE Exit(p, "done", "ping failed")
  /\ UNCHANGED <<ws, conns, nonWsVars>>

\* a variant of the ping pump without the done case
PingDoneOf_NoDoneCase(p) ==
  /\ At(p, "pingPump", "select")
  /\ ws.done = "closed"
  /\ UNCHANGED <<ws, pumps, conns, nonWsVars>>

\* the done case
PingDoneOf(p) ==
  /\ At(p, "pingPump", "select")
  /\ ws.done = "closed"
  /\ Exit(p, "done", "done")
  /\ UNCHANGED <<ws, conns, nonWsVars>>

ReadSelect == \E p \in DOMAIN pumps : ReadSelectOf(p)
ReadCall == \E p \in DOMAIN pumps : ReadCallOf(p)
ReadMessage == \E p \in DOMAIN pumps : ReadMessageOf(p)
ReadClosed == \E p \in DOMAIN pumps : ReadClosedOf(p)
ReadFails == \E p \in DOMAIN pumps : ReadFailsOf(p)
ReadCheck == \E p \in DOMAIN pumps : ReadCheckOf(p)
Reconnect == \E p \in DOMAIN pumps : ReconnectOf(p)
ReconnectDial == \E p \in DOMAIN pumps : ReconnectDialOf(p)
ReconnectDeadline == \E p \in DOMAIN pumps : ReconnectDeadlineOf(p)
ReconnectSnapshot == \E p \in DOMAIN pumps : ReconnectSnapshotOf(p)
ReconnectResub == \E p \in DOMAIN pumps : ReconnectResubOf(p)
ReconnectReturn == \E p \in DOMAIN pumps : ReconnectReturnOf(p)
ReadDefer == \E p \in DOMAIN pumps : ReadDeferOf(p)
ReadClose == \E p \in DOMAIN pumps : ReadCloseOf(p)
PingTick == \E p \in DOMAIN pumps : PingTickOf(p)
PingDone == \E p \in DOMAIN pumps : PingDoneOf(p)

PumpNext ==
  \/ ReadSelect
  \/ ReadCall
  \/ ReadMessage
  \/ ReadClosed
  \/ ReadFails
  \/ ReadCheck
  \/ Reconnect
  \/ ReconnectDial
  \/ ReconnectDeadline
  \/ ReconnectSnapshot
  \/ ReconnectResub
  \/ ReconnectReturn
  \/ ReadDefer
  \/ ReadClose
  \/ PingTick
  \/ PingDone

(***************************************************************************)
(* Subscribe and Unsubscribe hold the mutex from their first statement to  *)
(* their return; each passage of their loop is one step.                   *)
(***************************************************************************)
SubBatches == {<<"allMids">>, <<"trades">>, <<"allMids", "trades">>}

SubscribeBegin ==
  /\ ws.panic = "" /\ MutexFree(ws)
  /\ ws.calls.Subscribe < MaxCalls
  /\ \E subs \in SubBatches, callback \in Callbacks :
       ws' = IF ~ws.isRunning
             THEN [ws EXCEPT !.ret = Ret("Subscribe", "WebSocket manager is not running",
                                         ws.subscriptions)]
             ELSE [ws EXCEPT !.calls.Subscribe = @ + 1, !.ret = NoRet,
                             !.api = [fn |-> "Subscribe", pc |-> "loop", subs |-> subs,
                                      callback |-> callback, before |-> ws.subscriptions]]
  /\ UNCHANGED <<pumps, conns, nonWsVars>>

\* w.subscriptions[key] = callback, then sendSubscription; an error of the
\* send is returned
SubscribeStep ==
  /\ ws.panic = "" /\ ws.api.fn = "Subscribe" /\ ws.api.subs # <<>>
  /\ LET k == Head(ws.api.subs)
         registered == [ws EXCEPT !.subscriptions = MapSet(@, k, ws.api.callback)]
     IN  \E ok \in BOOLEAN :
           IF ws.conn = 0
           THEN /\ ws' = Panic(registered, "WriteJSON on nil connection")
                /\ UNCHANGED <<pumps, conns>>
           ELSE IF Written(conns, ws.conn, ok)
           THEN /\ ws' = [registered EXCEPT !.api.subs = Tail(@)]
                /\ conns' = [conns EXCEPT ![ws.conn].sent = @ \cup {k}]
                /\ pumps' = [p \in DOMAIN pumps |-> [pumps[p] EXCEPT !.absent = @ \ {k}]]
           ELSE /\ ws' = [registered EXCEPT
                            !.api = NoApi,
                            !.ret = Ret("Subscribe", "failed to send subscription",
                                        ws.api.before)]
                /\ pumps' = [p \in DOMAIN pumps |-> [pumps[p] EXCEPT !.absent = @ \ {k}]]
                /\ UNCHANGED conns
  /\ UNCHANGED nonWsVars

SubscribeReturn ==
  /\ ws.panic = "" /\ ws.api.fn = "Subscribe" /\ ws.api.subs = <<>>
  /\ ws' = [ws EXCEPT !.api = NoApi, !.ret = Ret("Subscribe", "", ws.api.before)]
  /\ UNCHANGED <<pumps, conns, nonWsVars>>

UnsubscribeBegin ==
  /\ ws.panic = "" /\ MutexFree(ws)
  /\ ws.calls.Unsubscribe < MaxCalls
  /\ \E subs \in SubBatches :
       ws' = IF ~ws.isRunning
             THEN [ws EXCEPT !.ret = Ret("Unsubscribe", "WebSocket manager is not running",
                                         ws.subscriptions)]
             ELSE [ws EXCEPT !.calls.Unsubscribe = @ + 1, !.ret = NoRet,
                             !.api = [fn |-> "Unsubscribe", pc |-> "loop", subs |-> subs,
                                      callback |-> "", before |-> ws.subscriptions]]
  /\ UNCHANGED <<pumps, conns, nonWsVars>>

\* delete(w.subscriptions, key), then sendUnsubscription; an error of the
\* send is logged
UnsubscribeStep ==
  /\ ws.panic = "" /\ ws.api.fn = "Unsubscribe" /\ ws.api.subs # <<>>
  /\ LET k == Head(ws.api.subs)
         deleted == [ws EXCEPT !.subscriptions = [x \in DOMAIN @ \ {k} |-> @[x]]]
     IN  \E ok \in BOOLEAN :
           IF ws.conn = 0
           THEN /\ ws' = Panic(deleted, "WriteJSON on nil connection")
                /\ UNCHANGED conns
           ELSE /\ ws' = [deleted EXCEPT !.api.subs = Tail(@)]
                /\ conns' = IF Written(conns, ws.conn, ok)
                            THEN [conns EXCEPT ![ws.conn].sent = @ \ {k}]
                            ELSE conns
  /\ UNCHANGED <<pumps, nonWsVars>>

UnsubscribeReturn ==
  /\ ws.panic = "" /\ ws.api.fn = "Unsubscribe" /\ ws.api.subs = <<>>
  /\ ws' = [ws EXCEPT !.api = NoApi, !.ret = Ret("Unsubscribe", "", ws.api.before)]
  /\ UNCHANGED <<pumps, conns, nonWsVars>>

WsNext ==
  \/ Start
  \/ StopBegin
  \/ StopClose
  \/ StopEnd
  \/ SubscribeBegin
  \/ SubscribeStep
  \/ SubscribeReturn
  \/ UnsubscribeBegin
  \/ UnsubscribeStep
  \/ UnsubscribeReturn
  \/ PumpNext

SpecWs == WsInit /\ [][WsNext]_vars

(***************************************************************************)
(* One manager that is started and stopped, with no subscription: the      *)
(* loop of reconnect over the subscriptions has nothing to send.  Every    *)
(* goroutine that can take a step of its own code eventually takes it, and *)
(* a Stop that began runs to its return; a read on a closed connection     *)
(* returns.  Nothing is assumed of the network: a message need not arrive, *)
(* an open connection need not fail, the ticker need not win the select.   *)
(***************************************************************************)
PumpStepOf(p) ==
  \/ ReadSelectOf(p)
  \/ ReadCallOf(p)
  \/ ReadClosedOf(p)
  \/ ReadCheckOf(p)
  \/ ReconnectOf(p)
  \/ ReconnectDialOf(p)
  \/ ReconnectDeadlineOf(p)
  \/ ReconnectSnapshotOf(p)
  \/ ReconnectReturnOf(p)
  \/ ReadDeferOf(p)
  \/ ReadCloseOf(p)
  \/ PingDoneOf(p)

WsLiveNext ==
  \/ Start
  \/ StopBegin
  \/ StopClose
  \/ StopEnd
  \/ ReadSelect
  \/ ReadCall
  \/ ReadMessage
  \/ ReadClosed
  \/ ReadFails
  \/ ReadCheck
  \/ Reconnect
  \/ ReconnectDial
  \/ ReconnectDeadline
  \/ ReconnectSnapshot
  \/ ReconnectReturn
  \/ ReadDefer
  \/ ReadClose
  \/ PingTick
  \/ PingDone

WsFairness ==
  /\ WF_vars(StopClose)
  /\ WF_vars(StopEnd)
  /\ \A p \in 1..(2 * MaxStarts) : WF_vars(PumpStepOf(p))

SpecWsLive == WsInit /\ [][WsLiveNext]_vars /\ WsFairness

(***************************************************************************)
(* Reading msgpack bytes back: the size of the value at a position, and    *)
(* the keys of a map in the order they were written.                       *)
(***************************************************************************)
RECURSIVE MpSize(_, _), MpSkip(_, _, _)
\* the position after k consecutive values that start at position i
MpSkip(b, i, k) == IF k = 0 THEN i ELSE MpSkip(b, i + MpSize(b, i), k - 1)
MpSize(b, i) ==
  LET c == b[i]
  IN  IF c >= 128 /\ c <= 143 THEN MpSkip(b, i + 1, 2 * (c - 128)) - i
      ELSE IF c >= 144 /\ c <= 159 THEN MpSkip(b, i + 1, c - 144) - i
      ELSE IF c >= 160 /\ c <= 191 THEN 1 + (c - 160)
      ELSE IF c = 204 THEN 2
      ELSE IF c = 205 THEN 3
      ELSE IF c = 206 THEN 5
      ELSE IF c = 211 THEN 9
      ELSE IF c = 217 THEN 2 + b[i + 1]
      ELSE 1

MpIsMap(b, i) == b[i] >= 128 /\ b[i] <= 143
MpIsArray(b, i) == b[i] >= 144 /\ b[i] <= 159
\* the bytes of the string at position i
MpStr(b, i) ==
  IF b[i] = 217 THEN SubSeq(b, i + 2, i + 1 + b[i + 1]) ELSE SubSeq(b, i + 1, i + b[i] - 160)
\* the keys of the map at position i, in the order written
MpMapKeys(b, i) == [j \in 1..(b[i] - 128) |-> MpStr(b, MpSkip(b, i + 1, 2 * (j - 1)))]
\* the position of the value written for the j-th key of the map at i
MpMapValue(b, i, j) == MpSkip(b, i + 1, 2 * (j - 1) + 1)
\* the position of the j-th element of the array at position i
MpArrayElem(b, i, j) == MpSkip(b, i + 1, j - 1)

\* the value of eight big-endian bytes whose upper four are zero
BigEndianValue(bs) == ((bs[5] * 256 + bs[6]) * 256 + bs[7]) * 256 + bs[8]

Runs == {hout[i] : i \in 1..Len(hout)}
IsHashFn(fn) == fn \in {"ActionHash1", "ActionHash2"}

(***************************************************************************)
(* Claims about ActionHash, SignL1Action and SignInner (SpecHash)          *)
(***************************************************************************)

\* C1: two executions of ActionHash with the same arguments hash the same
\* bytes and return the same digest, and two executions of SignL1Action
\* with the same key and arguments return the same r, s and v, also for an
\* action that is a map with several keys.
C1_SameResultTwice ==
  (Len(hout) = 2 /\ hout[1].fn = hout[2].fn) =>
     /\ hout[1].hashed.status = hout[2].hashed.status
     /\ hout[1].hashed.data = hout[2].hashed.data
     /\ hout[1].hashed.hash = hout[2].hashed.hash
     /\ hout[1].sig.r = hout[2].sig.r
     /\ hout[1].sig.s = hout[2].sig.s
     /\ hout[1].sig.v = hout[2].sig.v

C1_Witness ==
  /\ Len(hout) = 2
  /\ hout[1].fn = "ActionHash1" /\ hout[2].fn = "ActionHash1"
  /\ hout[1].hashed.status = "ok" /\ hout[2].hashed.status = "ok"
  /\ hin.act.kind = "order" /\ hin.act.builder /\ hin.nonce >= 0
  /\ hout[1].hashed.hash # hout[2].hashed.hash

\* the keys of the order action and of an order line, in the claimed order
ClaimedActionKeys(act) ==
  <<StrBytes(K_type), StrBytes(K_orders), StrBytes(K_grouping)>> \o
  (IF act.builder THEN <<StrBytes(K_builder)>> ELSE <<>>)
ClaimedOrderKeys(w) ==
  <<StrBytes(<<"a">>), StrBytes(<<"b">>), StrBytes(<<"p">>), StrBytes(<<"s">>),
    StrBytes(<<"r">>), StrBytes(<<"t">>)>> \o (IF w.C.set THEN <<StrBytes(<<"c">>)>> ELSE <<>>)

\* the keys of the j-th order line in the serialized order action b, whose
\* orders array is the value of the k-th top-level key
OrderLineKeys(b, k, j) == MpMapKeys(b, MpArrayElem(b, MpMapValue(b, 1, k), j))

\* C2: in the bytes ActionHash serializes for an order action the top-level
\* keys are written in the order type, orders, grouping, builder (builder
\* only when given) and the keys of every order line in the order a, b, p,
\* s, r, t, c (c only with a client order id).
C2_KeyOrder ==
  \A run \in Runs :
    (run.hashed.status = "ok" /\ hin.act.kind = "order") =>
       LET b == run.hashed.data
           top == MpMapKeys(b, 1)
       IN  /\ MpIsMap(b, 1)
           /\ top = ClaimedActionKeys(hin.act)
           /\ \A k \in 1..Len(top) :
                top[k] = StrBytes(K_orders) =>
                  /\ MpIsArray(b, MpMapValue(b, 1, k))
                  /\ b[MpMapValue(b, 1, k)] - 144 = hin.act.n
                  /\ \A j \in 1..hin.act.n :
                       OrderLineKeys(b, k, j) = ClaimedOrderKeys(BatchOf(hin.act.n)[j])

C2_Witness ==
  \E run \in Runs :
    /\ run.fn = "ActionHash2" /\ run.hashed.status = "ok"
    /\ hin.act.kind = "order" /\ hin.act.builder
    /\ MpMapKeys(run.hashed.ser, 1) =
         <<StrBytes(K_builder), StrBytes(K_grouping), StrBytes(K_orders), StrBytes(K_type)>>

\* C3: the bytes ActionHash hashes are the serialized action, then the nonce
\* as 8 big-endian bytes, then the vault section: the byte 0 when
\* vaultAddress is absent, else the byte 1 and exactly 20 address bytes,
\* whatever string vaultAddress is.
C3_PreimageLayout ==
  \A run \in Runs :
    run.hashed.status = "ok" =>
       LET h == run.hashed
       IN  /\ MpSize(h.data, 1) = Len(h.ser)
           /\ h.data = h.ser \o h.nonceSec \o h.vaultSec \o h.expSec
           /\ Len(h.nonceSec) = 8
           /\ hin.nonce >= 0 => BigEndianValue(h.nonceSec) = hin.nonce
           /\ IF hin.vault.set
              THEN h.vaultSec[1] = 1 /\ Len(h.vaultSec) = 21
              ELSE h.vaultSec = <<0>>

C3_Witness ==
  \E run \in Runs :
    /\ run.fn = "ActionHash1" /\ run.hashed.status = "ok"
    /\ hin.vault = PtrStr(<<>>) /\ hin.nonce >= 0
    /\ run.hashed.vaultSec = <<1>>

\* C4: a call of ActionHash or SignL1Action with a negative nonce or a
\* negative expiresAfter returns an error to the caller and produces no
\* digest and no signature.
NegativeArgument == hin.nonce < 0 \/ (hin.expires.set /\ hin.expires.val < 0)
C4_NegativeRejected ==
  \A run \in Runs :
    NegativeArgument =>
       /\ run.hashed.status = "error"
       /\ run.hashed.hash = NoHash
       /\ run.sig.status # "ok"

C4_Witness ==
  \E run \in Runs :
    /\ run.fn = "SignL1Action1" /\ hin.nonce < 0
    /\ run.hashed.status = "ok" /\ run.sig.status = "ok"

\* the expiry sections the claim describes for the two revisions
ClaimedExpSec1 == IF hin.expires.set THEN <<1>> \o PutUint64(hin.expires.val) ELSE <<0>>
ClaimedExpSec2 == IF hin.expires.set THEN <<0>> \o PutUint64(hin.expires.val) ELSE <<>>
BothHashed(a, b) ==
  /\ a.fn = "ActionHash1" /\ b.fn = "ActionHash2"
  /\ a.hashed.status = "ok" /\ b.hashed.status = "ok"
UpperCasePrefix(vault) == vault.set /\ HasPrefix(vault.val, <<"0", "X">>)

C6_PhantomAgentOnly ==
  \A run \in Runs :
    run.sig.status = "ok" =>
       LET data == run.sig.typed
       IN  /\ DOMAIN data.message = {"source", "connectionId"}
           /\ data.message["source"] = TStr(IF hin.isMainnet THEN <<"a">> ELSE <<"b">>)
           /\ data.message["connectionId"] = THash(run.hashed.hash)
           /\ run.hashed.hash.len = 32
           /\ run.hashed.hash.keccak256 = run.hashed.data
           /\ data.primaryType = "Agent"
           /\ data.domain.name = ExchangeDomainName
           /\ data.domain.version = <<"1">>
           /\ data.domain.verifyingContract = <<"0", "x">> \o Rep(<<"0">>, 40)

C6_Witness ==
  \E a, b \in Runs :
    /\ a.fn = "SignL1Action1" /\ a.sig.status = "ok"
    /\ b.fn = "SignL1Action1" /\ b.sig.status = "ok"
    /\ hin.act.kind = "order" /\ hin.act.builder
    /\ hin.isMainnet
    /\ a.hashed.data # b.hashed.data

\* C9: a signature returned by SignInner has v 27 or 28 and r and s of "0x"
\* and 64 hex digits each, also when r or s starts with a zero byte, so that
\* they decode to the 32 bytes of the signature that was produced.
C9_FullWidthSignature ==
  \A run \in Runs :
    run.sig.status = "ok" =>
       /\ run.sig.v \in {27, 28}
       /\ run.sig.v - 27 = run.sig.signature.v
       /\ Len(run.sig.r) = 66 /\ Len(run.sig.s) = 66
       /\ HexDecodeString(SubSeq(run.sig.r, 3, Len(run.sig.r))).bytes = run.sig.signature.r
       /\ HexDecodeString(SubSeq(run.sig.s, 3, Len(run.sig.s))).bytes = run.sig.signature.s

C9_Witness ==
  \E run \in Runs :
    /\ run.fn = "SignL1Action2" /\ run.sig.status = "ok"
    /\ run.sig.signature.r[1] = 0
    /\ Len(run.sig.r) = 64

(***************************************************************************)
(* Claims about the signing of user-authorized actions (SpecUser)          *)
(***************************************************************************)
URuns == {uout[i] : i \in 1..Len(uout)}
SchemaNames == FieldNames(KindTypes(uin.kind))
ChainName == TStr(IF uin.isMainnet THEN MainnetChainName ELSE TestnetChainName)

\* C7: the message UserSignedPayload builds has exactly the action's keys
\* that the schema names, signatureChainId excluded, each with the action's
\* value; and in the message SignUserSignedAction signs hyperliquidChain is
\* "Mainnet" or "Testnet" by isMainnet, whatever the caller supplied, the
\* other keys being the action's keys that the schema names.
C7_MessageFromSchema ==
  \A run \in URuns :
    LET action == UserAction(uin)
        msg == run.typed.message
    IN  /\ run.fn = "UserSignedPayload" =>
             /\ DOMAIN msg = (DOMAIN action \cap SchemaNames) \ {"signatureChainId"}
             /\ \A k \in DOMAIN msg : msg[k] = action[k]
        /\ run.fn \in {"SignUserSignedAction1", "SignUserSignedAction2"} =>
             /\ DOMAIN msg =
                  ((DOMAIN action \cup {"hyperliquidChain"}) \cap SchemaNames)
                     \ {"signatureChainId"}
             /\ msg["hyperliquidChain"] = ChainName
             /\ \A k \in DOMAIN msg \ {"hyperliquidChain"} : msg[k] = action[k]

C7_Witness ==
  \E run \in URuns :
    /\ run.fn = "SignUserSignedAction1"
    /\ run.sig.status = "ok"
    /\ uin.extras = ExtraKeys
    /\ uin.kind = "SpotSend"
    /\ uin.isMainnet
    /\ run.typed.message["hyperliquidChain"] # UserAction(uin)["hyperliquidChain"]

(***************************************************************************)
(* Claims about the Exchange (Spec)                                        *)
(***************************************************************************)
UserSignedEntryPoints == {"UsdTransfer", "SpotTransfer", "WithdrawFromBridge", "ApproveAgent"}
UintFieldOf(fn) == IF fn = "ApproveAgent" THEN "nonce" ELSE "time"

\* C8: in the typed-data message an Exchange entry point for a
\* user-authorized action signs (UsdTransfer, SpotTransfer,
\* WithdrawFromBridge, ApproveAgent), the value of the schema's uint64
\* field, time or nonce, is a big integer, never a string or a native
\* integer.
C8_UintIsBigInteger ==
  (last.fn \in UserSignedEntryPoints /\ last.sig.status = "ok") =>
     last.sig.typed.message[UintFieldOf(last.fn)].k = "bigint"

C8_Witness ==
  /\ last.fn = "SpotTransfer" /\ last.posted
  /\ last.sig.typed.message["time"] = TStr(NatDigits(last.payload["time"]))

\* two address strings that denote the same account: the same 20 bytes,
\* whatever the case of the hex digits
SameAccount(a, b) == ToLower(a) = ToLower(b)

\* C10: the envelope postAction assembles has a user field, equal to the
\* configured account address, exactly when that address denotes another
\* account than the address of the signing key; when it denotes the same
\* account, in whatever letter case, there is no user field.
C10_UserFieldIffOtherAccount ==
  (last.fn = "CancelAll" /\ last.posted) =>
     LET other == /\ ex.accountAddress.set
                  /\ ~SameAccount(ex.accountAddress.val,
                                  GetAddressFromPrivateKey(ex.privateKey))
     IN  /\ ("user" \in DOMAIN last.payload) <=> other
         /\ other => last.payload["user"] = ex.accountAddress.val

C10_Witness ==
  /\ last.fn = "CancelAll" /\ last.posted
  /\ ex.accountAddress = PtrStr(ToLower(GetAddressFromPrivateKey(ex.privateKey)))
  /\ "user" \in DOMAIN last.payload


(***************************************************************************)
(* Claims about the acting account (SpecAccount, Spec)                     *)
(***************************************************************************)
AccountRuns == {run \in Runs : run.fn = "SignL1ActionWithAccount1"}
SameRSV(a, b) ==
  /\ a.sig.status = b.sig.status
  /\ a.sig.r = b.sig.r /\ a.sig.s = b.sig.s /\ a.sig.v = b.sig.v
\* the address a signature recovers to: the address of the key that
\* crypto.Sign was handed when it produced the signature
RecoveredAddress(memo) == GetAddressFromPrivateKey(memo.key)

C11_EmptyAccountIsAbsent ==
  (last.fn = "CancelAll" /\ last.posted) =>
     /\ (ex.accountAddress.set /\ ex.accountAddress.val = <<>>) =>
           "user" \notin DOMAIN last.payload
     /\ "user" \in DOMAIN last.payload => last.payload["user"] # <<>>

C11_Witness ==
  /\ last.fn = "CancelAll" /\ last.posted
  /\ ex.accountAddress = PtrStr(<<>>)
  /\ "user" \in DOMAIN last.payload
  /\ last.payload["user"] = <<>>

EnvelopeKeys == {"action", "nonce", "signature", "vaultAddress", "expiresAfter"}
AccountScopedTypes ==
  {<<"u","s","d","C","l","a","s","s","T","r","a","n","s","f","e","r">>,
   <<"s","e","n","d","A","s","s","e","t">>}

\* C13: the envelope of postAction carries the Exchange's vault address for
\* every action whose type is a string other than usdClassTransfer and
\* sendAsset and null for these two; action, nonce, signature, vaultAddress
\* and expiresAfter are keys of every envelope, null when unset.
C13_VaultByActionType ==
  [][(last' # last /\ last'.fn = "postAction" /\ last'.posted) =>
       /\ EnvelopeKeys \subseteq DOMAIN last'.payload
       /\ (/\ ActionType(last'.payload["action"]).ok
           /\ ActionType(last'.payload["action"]).s \notin AccountScopedTypes)
             => last'.payload["vaultAddress"] = ex.vaultAddress
       /\ (/\ ActionType(last'.payload["action"]).ok
           /\ ActionType(last'.payload["action"]).s \in AccountScopedTypes)
             => last'.payload["vaultAddress"] = NilStr
       /\ last'.payload["expiresAfter"] = ex.expiresAfter
       /\ last'.payload["nonce"] = clock]_vars

C13_Witness ==
  /\ last.fn = "postAction" /\ last.posted
  /\ ex.vaultAddress.set /\ ex.expiresAfter.set
  /\ ActionType(last.payload["action"]).s \in AccountScopedTypes
  /\ last.payload["vaultAddress"] = NilStr

\* C14: the request body of every Exchange action method, UsdTransfer,
\* SpotTransfer, WithdrawFromBridge and ApproveAgent included, is the
\* envelope: it has the keys action, nonce, signature, vaultAddress and
\* expiresAfter, and the action's own fields are under action.
C14_EveryBodyIsEnvelope ==
  (last.fn \in UserSignedEntryPoints \cup {"CancelAll"} /\ last.posted) =>
     /\ EnvelopeKeys \subseteq DOMAIN last.payload
     /\ "type" \notin DOMAIN last.payload

C14_Witness ==
  /\ last.fn = "UsdTransfer" /\ last.posted
  /\ "type" \in DOMAIN last.payload /\ "action" \notin DOMAIN last.payload
  /\ "signature" \in DOMAIN last.payload


(***************************************************************************)
(* Claims about the instrument table (SpecInfo)                            *)
(***************************************************************************)
Table == info.info.coinToAsset
Built == info.status = "ok"
SpotUniverse == meta.spotMeta.Universe
\* the venues NewInfo loads, and the universe of each
LoadedDexs == IF meta.perpDexs.set THEN meta.perpDexs.val ELSE <<<<>>>>
UniverseOf(dex) ==
  IF dex = <<>> /\ meta.passed.set THEN meta.passed.val.Universe
  ELSE meta.server.metaOf[dex].val.Universe
\* the numbers i of the venues the server lists under a name, the first
\* venue after the default one being number 0
VenueIndexes(dex) ==
  {i \in 0..(Len(meta.server.perpDexs) - 2) : meta.server.perpDexs[i + 2] = NamedDex(dex)}
HasId(name, id) == name \in DOMAIN Table /\ Table[name] = id

\* C18: after NewInfo an instrument of the default derivatives venue has the
\* id of its place in the venue's universe, an instrument of the auxiliary
\* venue number i has 110000 + 10000*i plus its place, for every venue name
\* passed in perpDexs, and a spot instrument has its place in the spot
\* universe plus 10000.
C18_IdsByPosition ==
  Built =>
     /\ \A j \in 1..Len(LoadedDexs) :
          IF LoadedDexs[j] = <<>>
          THEN \A k \in 1..Len(UniverseOf(<<>>)) :
                 HasId(UniverseOf(<<>>)[k].Name, k - 1)
          ELSE \E i \in VenueIndexes(LoadedDexs[j]) :
                 \A k \in 1..Len(UniverseOf(LoadedDexs[j])) :
                   HasId(UniverseOf(LoadedDexs[j])[k].Name, 110000 + 10000 * i + (k - 1))
     /\ \A p \in 1..Len(SpotUniverse) : HasId(SpotUniverse[p].Name, (p - 1) + 10000)

C18_Witness ==
  /\ Built
  /\ Len(SpotUniverse) = 2 /\ SpotUniverse[2] = SpotAssetInfo(N_At1, <<2, 0>>, 7)
  /\ SpotUniverse[1].Name = N_PURRUSDC
  /\ HasId(N_At1, 10007)
  /\ meta.perpDexs = DexList(<<<<>>, N_DexB, N_DexA>>)
  /\ HasId(N_Gas, 120001) /\ HasId(N_Gold, 110000) /\ HasId(N_ETH, 1)

\* C19: every id of a derivative of the default venue is in [0, 10000),
\* every id of a spot instrument is in [10000, 110000), and every id of a
\* derivative of an auxiliary venue is at least 110000.
C19_DisjointNamespaces ==
  Built =>
     /\ \A j \in 1..Len(LoadedDexs) :
          \A k \in 1..Len(UniverseOf(LoadedDexs[j])) :
             /\ UniverseOf(LoadedDexs[j])[k].Name \in DOMAIN Table
             /\ IF LoadedDexs[j] = <<>>
                THEN Table[UniverseOf(LoadedDexs[j])[k].Name] \in 0..9999
                ELSE Table[UniverseOf(LoadedDexs[j])[k].Name] >= 110000
     /\ \A p \in 1..Len(SpotUniverse) :
          /\ SpotUniverse[p].Name \in DOMAIN Table
          /\ Table[SpotUniverse[p].Name] \in 10000..109999

C19_Witness ==
  /\ Built
  /\ \E p \in 1..Len(SpotUniverse) :
       /\ SpotUniverse[p].Index = 100000
       /\ HasId(SpotUniverse[p].Name, 110000)
       /\ IsPerpAsset(Table[SpotUniverse[p].Name])
  /\ meta.perpDexs = DexList(<<<<>>, N_Ghost>>)
  /\ HasId(N_ETH, 0) /\ HasId(N_BTC, 0)

\* the alias NewInfo synthesizes for a pair, for a pair that has two tokens
\* of the token list
HasAlias(pair) ==
  /\ Len(pair.Tokens) >= 2
  /\ pair.Tokens[1] < Len(meta.spotMeta.Tokens)
  /\ pair.Tokens[2] < Len(meta.spotMeta.Tokens)
AliasOf(pair) ==
  SpotAlias(meta.spotMeta.Tokens[pair.Tokens[1] + 1], meta.spotMeta.Tokens[pair.Tokens[2] + 1])
KnownNames ==
  {SpotUniverse[p].Name : p \in 1..Len(SpotUniverse)}
  \cup {AliasOf(SpotUniverse[p]) : p \in {q \in 1..Len(SpotUniverse) : HasAlias(SpotUniverse[q])}}
  \cup UNION {{UniverseOf(LoadedDexs[j])[k].Name : k \in 1..Len(UniverseOf(LoadedDexs[j]))} :
              j \in 1..Len(LoadedDexs)}

\* C20: NameToAsset returns an error and the id 0 for a name that is no
\* instrument name and no synthesized alias; for every spot pair the pair's
\* name and its BASE/QUOTE alias resolve to the pair's index + 10000,
\* whatever else is in the table.
C20_NamesAndAliasesResolve ==
  (Built /\ asked # <<>>) =>
     /\ asked.name \notin KnownNames => (asked.res.err /\ asked.res.asset = 0)
     /\ \A p \in 1..Len(SpotUniverse) :
          (\/ asked.name = SpotUniverse[p].Name
           \/ (HasAlias(SpotUniverse[p]) /\ asked.name = AliasOf(SpotUniverse[p])))
            => (~asked.res.err /\ asked.res.asset = SpotUniverse[p].Index + 10000)

C20_Witness ==
  /\ Built /\ asked # <<>>
  /\ Len(SpotUniverse) = 2
  /\ SpotUniverse[1] = SpotAssetInfo(N_PURRUSDC, <<1, 0>>, 0)
  /\ SpotUniverse[2] = SpotAssetInfo(N_At2, <<1, 0>>, 1)
  /\ asked.name = AliasOf(SpotUniverse[2])
  /\ asked.res = [err |-> FALSE, asset |-> 10000]

(***************************************************************************)
(* Calls of exchange-native methods: what is signed and what is sent       *)
(***************************************************************************)
\* the three sections of the hash pre-image that the values of an envelope
\* would give
SectionsOf(payload, action) ==
  [nonceSec |-> ActionHash1(action, payload["vaultAddress"], payload["nonce"],
                            payload["expiresAfter"], 1).nonceSec,
   vaultSec |-> ActionHash1(action, payload["vaultAddress"], payload["nonce"],
                            payload["expiresAfter"], 1).vaultSec,
   expSec |-> ActionHash1(action, payload["vaultAddress"], payload["nonce"],
                          payload["expiresAfter"], 1).expSec]

WasPosted(g) == calls[g].pc = "done" /\ calls[g].posts > 0

\* C15: for every request an exchange-native method posted, the nonce, the
\* vaultAddress and the expiresAfter of the envelope are the values that were
\* hashed into the signature, whatever SetExpiresAfter calls and other calls
\* ran in between.
C15_EnvelopeIsWhatWasSigned ==
  \A g \in Goroutines :
     WasPosted(g) => calls[g].hashed = SectionsOf(calls[g].payload, calls[g].action)

\* a posted request whose envelope has an expiry while none was hashed
C15_Witness ==
  \E g \in Goroutines :
     /\ WasPosted(g)
     /\ calls[g].payload["expiresAfter"].set
     /\ calls[g].hashed.expSec = <<0>>
     /\ calls[g].payload["nonce"] = calls[g].timestamp

\* C17: no two actions issued through the same Exchange are signed and sent
\* with the same nonce, also when they are issued in the same millisecond or
\* after the wall clock stepped back.
C17_NoNonceTwice ==
  \A g, h \in Goroutines :
     (g # h /\ WasPosted(g) /\ WasPosted(h)) =>
        calls[g].payload["nonce"] # calls[h].payload["nonce"]

\* two posted requests of different methods, signed at the same reading of
\* the clock
C17_Witness ==
  \E g, h \in Goroutines :
     /\ g # h /\ WasPosted(g) /\ WasPosted(h)
     /\ calls[g].fn # calls[h].fn
     /\ calls[g].timestamp = calls[h].timestamp
     /\ calls[g].signature # SignatureMap(NotSigned)
     /\ calls[h].signature # SignatureMap(NotSigned)

\* the orders of a call that do not resolve, and those that resolve but do
\* not encode
Unresolved(call) ==
  {k \in 1..Len(call.orders) : NameToAsset(info.info, call.orders[k].Coin).err}
Unencodable(call) ==
  {k \in 1..Len(call.orders) :
     /\ Encodes(call.fn)
     /\ ~NameToAsset(info.info, call.orders[k].Coin).err
     /\ OrderRequestToOrderWire(call.orders[k],
                                NameToAsset(info.info, call.orders[k].Coin).asset).err}
\* the vault the Exchange holds cannot be hashed
CannotSign == ex.vaultAddress.set /\ AddressToBytes1(ex.vaultAddress.val).err

\* C16: a call of BulkOrders, Cancel, Modify or UpdateLeverage hands at most
\* one request to Post, and only after every order resolved, every order
\* encoded and the signing succeeded; when an order does not resolve or
\* encode, or signing fails, the call returns the error with nothing signed
\* and nothing posted; a failure of Post is returned after that one attempt.
C16_PostOnceAfterAllSucceeded ==
  \A g \in Goroutines :
     /\ calls[g].posts <= 1
     /\ calls[g].posts = 1 =>
          /\ calls[g].pc = "done"
          /\ calls[g].result \in {"posted", "postError"}
          /\ Unresolved(calls[g]) = {} /\ Unencodable(calls[g]) = {}
          /\ Len(calls[g].assets) = Len(calls[g].orders)
          /\ Encodes(calls[g].fn) => Len(calls[g].wires) = Len(calls[g].orders)
          /\ ~CannotSign
          /\ signed # NoSigned
          /\ calls[g].payload["signature"] = calls[g].signature
          /\ calls[g].signature # SignatureMap(NotSigned)
          /\ calls[g].payload["action"] = ActionOfCall(calls[g])
     /\ (Unresolved(calls[g]) # {} \/ Unencodable(calls[g]) # {} \/ CannotSign) =>
          /\ calls[g].posts = 0
          /\ signed = NoSigned
          /\ calls[g].result \in {"", "resolveError", "encodeError", "signError"}
     /\ calls[g].result \in {"resolveError", "encodeError", "signError"} =>
          /\ calls[g].pc = "done"
          /\ calls[g].posts = 0
          /\ signed = NoSigned
     /\ calls[g].result = "postError" => calls[g].posts = 1 /\ calls[g].pc = "done"
     /\ calls[g].pc = "done" =>
          calls[g].result =
            IF Unresolved(calls[g]) \cup Unencodable(calls[g]) # {}
            THEN (IF (CHOOSE k \in Unresolved(calls[g]) \cup Unencodable(calls[g]) :
                        \A j \in Unresolved(calls[g]) \cup Unencodable(calls[g]) : k <= j)
                     \in Unresolved(calls[g])
                  THEN "resolveError" ELSE "encodeError")
            ELSE IF CannotSign THEN "signError"
            ELSE calls[g].result

\* a batch of two whose second order does not encode: the call returned the
\* error after it resolved both names, and nothing was signed or posted
C16_Witness ==
  \E g \in Goroutines :
     /\ calls[g].fn = "BulkOrders"
     /\ Len(calls[g].orders) = 2
     /\ Unencodable(calls[g]) = {2} /\ Unresolved(calls[g]) = {}
     /\ calls[g].result = "encodeError"
     /\ calls[g].posts = 0 /\ signed = NoSigned

(***************************************************************************)
(* The float conversion                                                    *)
(***************************************************************************)
FloatCalls == {k \in 1..Len(fout) : fout[k].fn \in {"FloatToWire1", "FloatToWire2"}}
OrderCalls == {k \in 1..Len(fout) : fout[k].fn \notin {"FloatToWire1", "FloatToWire2"}}

\* the input prints as zero at 8 decimals
FormatsToZero(x) ==
  /\ x.special = ""
  /\ x.int = 0
  /\ \A k \in 1..8 : FracDigit(x, k) = 0
  /\ FracDigit(x, 9) < 5

\* C22: a string FloatToWire returns is not empty, does not end with a
\* decimal point, does not end with a zero after a decimal point, and is "0"
\* for every input that formats to zero at 8 decimals, negative ones
\* included.
C22_NormalisedText ==
  \A k \in FloatCalls :
     ~fout[k].res.err =>
        /\ fout[k].res.s # <<>>
        /\ fout[k].res.s[Len(fout[k].res.s)] # "."
        /\ InSeq(fout[k].res.s, ".") => fout[k].res.s[Len(fout[k].res.s)] # "0"
        /\ FormatsToZero(fin) => fout[k].res.s = <<"0">>

\* a negative input below the tolerance was accepted and came out as "0"
C22_Witness ==
  \E k \in FloatCalls :
     /\ fin.neg /\ FormatsToZero(fin) /\ \E d \in 1..Len(fin.frac) : fin.frac[d] # 0
     /\ ~fout[k].res.err
     /\ fout[k].res.s = <<"0">>

\* the distance between two numbers in units of 1e-13, as long as it is
\* small; the signs are those of the numbers unless the second is zero
IsZero(p) == p.int = 0 /\ \A k \in 1..Len(p.frac) : p.frac[k] = 0
HighDiff(x, p) == (p.int - x.int) * 100000000 + FracNumber(p, 1, 8) - FracNumber(x, 1, 8)
LowDiff(x, p) == FracNumber(p, 9, 13) - FracNumber(x, 9, 13)
\* |x - the number s names| < 1e-12, evaluated as float64 arithmetic does:
\* a comparison with NaN, the difference of two infinities included, is false
Within(x, s) ==
  /\ x.special = "" /\ ParseFloat(s).special = ""
  /\ IsZero(ParseFloat(s)) \/ IsZero(x) \/ ParseFloat(s).neg = x.neg
  /\ \/ HighDiff(x, ParseFloat(s)) = 0 /\ LowDiff(x, ParseFloat(s)) \in -9..9
     \/ HighDiff(x, ParseFloat(s)) = 1 /\ 100000 + LowDiff(x, ParseFloat(s)) \in -9..9
     \/ HighDiff(x, ParseFloat(s)) = -1 /\ LowDiff(x, ParseFloat(s)) - 100000 \in -9..9

\* the input is 1e-12 or more away from what %.8f prints for it
Differs(x) == x.special = "" /\ ~Within(x, Sprintf8f(x))

\* the string an order conversion made of the field under test
WireField(res, field) ==
  CASE field = "LimitPx" -> res.wire.P
    [] field = "Sz" -> res.wire.S
    [] OTHER -> res.wire.T.Trigger.triggerPx

\* C23: FloatToWire returns an error and no string when the input is 1e-12
\* or more away from its value at 8 decimals, and otherwise a string that
\* parses back to within 1e-12 of the input; so a wire order never holds a
\* price, size or trigger price that was rounded.
C23_RejectsOrRoundTrips ==
  /\ \A k \in FloatCalls :
       /\ Differs(fin) => fout[k].res.err /\ fout[k].res.s = <<>>
       /\ ~Differs(fin) => ~fout[k].res.err /\ Within(fin, fout[k].res.s)
  /\ \A k \in OrderCalls :
       ~fout[k].res.err => Within(fin, WireField(fout[k].res, fout[k].field))

\* a price that is not a number went into a wire order as the text NaN
C23_Witness ==
  \E k \in OrderCalls :
     /\ fin = NaN
     /\ fout[k].field = "LimitPx"
     /\ ~fout[k].res.err
     /\ fout[k].res.wire.P = <<"N","a","N">>

(***************************************************************************)
(* The caller's action map                                                 *)
(***************************************************************************)
\* C24: SignUserSignedAction, SignUSDTransferAction and SignAgent leave the
\* map the caller passed as it was, whether they return a signature or an
\* error: no chain entry added, type not removed, time and nonce not
\* converted in place.
C24_CallerMapUnchanged ==
  uout # <<>> => heap["caller"] = UserAction(uin)

\* SignUSDTransferAction returned a signature; its own map has the chain
\* entries, no type and a converted time, the caller's map has type and the
\* time as a string
C24_Witness ==
  /\ uout # <<>>
  /\ uout[1].fn = "SignUSDTransferAction"
  /\ uout[1].sig.status = "ok"
  /\ "type" \in DOMAIN heap["caller"]
  /\ heap["caller"]["time"].k = "string"
  /\ heap["SignUSDTransferAction.signAction"]["time"].k # "string"
  /\ "type" \notin DOMAIN heap["SignUSDTransferAction.signAction"]
  /\ "signatureChainId" \in DOMAIN heap["SignUserSignedAction.signAction"]
  /\ "signatureChainId" \notin DOMAIN heap["caller"]

(***************************************************************************)
(* The table after construction                                            *)
(***************************************************************************)
\* C21: once NewInfo has returned, coinToAsset, nameToCoin and
\* assetToSzDecimals are what NewInfo built, after every NameToAsset,
\* slippagePrice, order, cancel, modify, leverage, transfer, Subscribe and
\* Unsubscribe call.
C21_TableIsAsBuilt ==
  info.status = "ok" =>
    info = NewInfo(meta.passed, meta.spotMeta, meta.perpDexs, meta.server)

\* a name that is not in the table was asked for, and slippagePrice found a
\* spot pair, in a table that holds spot pairs and derivatives
C21_Witness ==
  /\ info.status = "ok"
  /\ asked # <<>>
  /\ \/ asked.op = "NameToAsset" /\ asked.res.err
     \/ asked.op = "slippagePrice" /\ asked.res.err = "" /\ asked.res.isSpot
     \/ asked.op = "BulkOrders" /\ ~asked.res.err
  /\ \E c \in DOMAIN info.info.coinToAsset : info.info.coinToAsset[c] >= 10000
  /\ \E c \in DOMAIN info.info.coinToAsset : info.info.coinToAsset[c] < 10000

(***************************************************************************)
(* WebsocketManager                                                        *)
(***************************************************************************)
ReadPumps == {p \in DOMAIN pumps : pumps[p].kind = "readPump"}

\* C25: a read pump that gave up reconnecting did so with "maximum
\* reconnection attempts reached", after MaxReconnects failures in a row;
\* one failed attempt does not end it.
C25_RetriesUpToMaxReconnects ==
  \A p \in ReadPumps :
    pumps[p].why \in {"", "done", "stopped", "maximum reconnection attempts reached"}

\* the pump is gone after its first failed attempt, the manager runs on
C25_Witness ==
  \E p \in ReadPumps :
    /\ pumps[p].why = "reconnection failed"
    /\ ws.currentRetries = 1
    /\ ws.isRunning

\* C26: from the return of Stop on, no connection is dialled, no
\* subscribe message is written, and conn is nil.
C26_QuietAfterStop ==
  [][ws.stopped /\ ws'.stopped =>
       /\ Len(conns') = Len(conns)
       /\ \A c \in DOMAIN conns : conns'[c].sent \subseteq conns[c].sent
       /\ ws'.conn = 0]_vars

\* Stop has returned, and conn is a connection that was dialled since, with
\* a subscription sent on it
C26_Witness ==
  /\ ws.stopped
  /\ ws.conn # 0
  /\ conns[ws.conn].open
  /\ conns[ws.conn].sent # {}

\* C27: no step of Start, Stop or a pump panics.
C27_NoPanic ==
  ws.panic = ""

\* the second Stop closed the channel the first one had closed
C27_Witness ==
  /\ ws.panic = "close of closed channel"
  /\ ws.starts = 2

\* C28: when reconnect returns nil, a subscribe message has been written to
\* the connection it dialled for every registered subscription, and for none
\* that was absent when it began and has not been subscribed since.
C28_ResubscribedOnReconnect ==
  [][\A p \in DOMAIN pumps :
       pumps[p].pc # "reconnected" /\ pumps'[p].pc = "reconnected" =>
         /\ DOMAIN ws'.subscriptions \subseteq conns'[pumps'[p].dialed].sent
         /\ conns'[pumps'[p].dialed].sent \cap pumps'[p].absent = {}]_vars

\* reconnect has returned nil; a subscription that Subscribe had written to
\* the earlier connection is registered and was not written to the
\* connection reconnect dialled, which is the manager's and is open
C28_Witness ==
  \E p \in ReadPumps :
    /\ pumps[p].pc = "reconnected"
    /\ ws.conn = pumps[p].dialed
    /\ conns[ws.conn].open
    /\ ws.api.fn = ""
    /\ ws.ret = Ret("Subscribe", "", <<>>)
    /\ \E k \in DOMAIN ws.subscriptions, c \in DOMAIN conns :
         /\ c # ws.conn
         /\ k \in conns[c].sent
         /\ k \notin conns[ws.conn].sent

\* C29: a Subscribe that returned an error left the registered subscriptions
\* and their callbacks as they were before the call.
C29_FailedSubscribeRegistersNothing ==
  ws.ret.fn = "Subscribe" /\ ws.ret.err # "" => ws.subscriptions = ws.ret.before

\* the send failed and the subscription is registered
C29_Witness ==
  /\ ws.ret.fn = "Subscribe"
  /\ ws.ret.err = "failed to send subscription"
  /\ ws.ret.before = <<>>
  /\ ws.subscriptions # <<>>

\* Stop was called on the running manager
StopCalled == ws.starts > 0 /\ ~ws.isRunning

PumpsGone == \A p \in DOMAIN pumps : pumps[p].pc = "done"

=============================================================================
